---- MODULE Spec2Model ----
(***************************************************************************)
(* Model of mx-api-monitoring: the aggregation store (sqlite.go), the       *)
(* aggregation HTTP API (server.go), and the agent's poller, reporter and   *)
(* scheduling loop.                                                         *)
(*                                                                          *)
(* Specifications:                                                          *)
(*   Spec       the Storage interface driven directly (as the unit tests do)*)
(*   SpecApi    the HTTP server in front of the store                       *)
(*   SpecReport httpReporter.Report building its payload                    *)
(*   SpecPoll   httpPoller.PollAll with its per-endpoint goroutines         *)
(*   SpecCron   commonGo.CronJobStarter driving a cycle handler             *)
(*   SpecWindow one metric saved repeatedly and its history read            *)
(*   SpecAuth   login, token verification and the restart of the server     *)
(*   SpecCycle  one cycle of engine.Process against the aggregator         *)
(*   SpecAgent  the scheduling loop driving engine.Process                 *)
(*   SpecTx     concurrent SaveMetric transactions                         *)
(*   SpecClose  the shutdown of the aggregator                             *)
(*   SpecPanels the Storage interface with the panel order calls           *)
(*   SpecFaults the operator endpoints over a failing Storage              *)
(*   SpecHandler  the agent's componentsHandler and its loops               *)
(*   SpecCleaner  the retention cleaner of the store and its Close          *)
(***************************************************************************)
EXTENDS Integers, Sequences, FiniteSets, TLC

\* ------------------------------------------------------------------------
\* Bounds of the model
\* ------------------------------------------------------------------------
MaxTime == 3
MaxRows == 2
MaxNum == 2
MinNum == 0 - 1
RetentionSeconds == 1
\* the 24 hours a token lives, in ticks of the model clock
TokenLifetime == 1

Names == {"vm1.nonce", "vm1.Active"}
Types == {"uint64", "bool"}
Values == {"a", "b"}
\* unix seconds; the clock of a running process is positive
Times == 1..MaxTime
NumAggs == MinNum..MaxNum
Orders == {0, 1}

\* the SaveMetric calls the model makes: vm1.nonce with every retention
\* count, with a second value, re-typed, and the heartbeat metric as the
\* agents report it
SaveInputs ==
    ({"vm1.nonce"} \X {"uint64"} \X NumAggs \X {"a"})
        \cup {<<"vm1.nonce", "uint64", 1, "b">>, <<"vm1.nonce", "bool", 1, "a">>,
              <<"vm1.Active", "bool", 1, "true">>}

\* the SaveMetric calls the model lets fail, at every step, at the time now
FailInputs == {<<"vm1.nonce", "uint64", 1, "b">>, <<"vm1.Active", "bool", 1, "true">>}

\* the UpdateMetricOrder calls the model makes
OrderInputs == {"vm1.nonce"} \X Orders

VARIABLES
    defs,      \* table metrics: name -> [type, num, order]
    vals,      \* table metrics_values in rowid order: rows [name, value, at]
    now,       \* wall clock, unix seconds
    last,      \* the Storage read the last step made, and what it returned
    jwtSecret, \* server.jwtSecret
    resp,      \* the HTTP request the last step served, and its response
    username,  \* the server's configured AuthUsername
    held,      \* the tokens handleLogin has issued: token, time, issuing process
    process,   \* the number of the running server process
    results,   \* Report: the poll results it is called with
    sent,      \* Report: payload.Metrics
    reportPc,  \* Report: "start", or how the call ended
    endpoints, \* PollAll: the endpoints it is called with
    taskPc,    \* PollAll: where each per-endpoint goroutine stands
    outcome,   \* PollAll: how each endpoint's pollEndpoint ended
    requests,  \* PollAll: the number of GETs sent to each endpoint
    mu,        \* PollAll: the goroutine holding mu, 0 for none
    pollMap,   \* PollAll: the map results
    pollPc,    \* PollAll: "wait" in wg.Wait, then "returned"
    cronPc,    \* CronJobStarter: where the loop goroutine stands
    timerC,    \* CronJobStarter: an expiry is waiting in timer.C
    timerOn,   \* CronJobStarter: time left on the running timer, 0 if stopped
    ctxDone,   \* CronJobStarter: ctx has been cancelled
    handled,   \* CronJobStarter: the number of handler invocations
    expired,   \* CronJobStarter: the number of timer expiries
    cycle,     \* Process: where the cycle stands and what it has called
    tx,        \* concurrent SaveMetric calls: their positions, the write lock
               \* and the tables as the writing transaction sees them
    srv,       \* the aggregator process: listener, requests in flight, the
               \* position of Close, whether the store is open
    panels,    \* table panel_configs: name -> display_order
    ch,        \* the agent's componentsHandler: its configuration, cancel,
               \* and the scheduling loops its Start calls have launched
    cleaner    \* the store's retention cleaner: its period, its ticker, the
               \* position of its goroutine and of the store's Close

storeVars == <<defs, vals, now, last>>
authVars == <<username, held, process>>
apiVars == <<jwtSecret, resp, authVars>>
reportVars == <<results, sent, reportPc>>
pollVars == <<endpoints, taskPc, outcome, requests, mu, pollMap, pollPc>>
cronVars == <<cronPc, timerC, timerOn, ctxDone, handled, expired>>
engineVars == <<cycle>>
\* the components an action of the store, the server, the reporter, the
\* poller or the scheduling loop never touches
txVars == <<tx>>
closeVars == <<srv>>
panelVars == <<panels>>
lifeVars == <<ch, cleaner>>
otherVars == <<engineVars, txVars, closeVars, panelVars, lifeVars>>
\* what the agent leaves alone of them, what the transactions do, and what
\* the shutdown does
besideEngine == <<txVars, closeVars, panelVars, lifeVars>>
besideTx == <<engineVars, closeVars, panelVars, lifeVars>>
besideClose == <<engineVars, txVars, panelVars, lifeVars>>
besidePanels == <<engineVars, txVars, closeVars, lifeVars>>
besideLife == <<engineVars, txVars, closeVars, panelVars>>
agentVars == <<reportVars, pollVars, cronVars, otherVars>>

\* ------------------------------------------------------------------------
\* Helpers
\* ------------------------------------------------------------------------
Min(a, b) == IF a < b THEN a ELSE b

\* the positions (rowid order) of the rows of a metric
RowsOf(v, name) == {i \in 1..Len(v) : v[i].name = name}

\* the table restricted to the positions in keep, rowid order preserved
RECURSIVE KeepRows(_, _)
KeepRows(v, keep) ==
    IF v = <<>> THEN <<>>
    ELSE LET rest == KeepRows(SubSeq(v, 1, Len(v) - 1), keep)
         IN  IF Len(v) \in keep THEN Append(rest, v[Len(v)]) ELSE rest

NoOut == [err |-> "none", latest |-> {}, history |-> <<>>]

\* ------------------------------------------------------------------------
\* sqliteStorage
\* ------------------------------------------------------------------------

\* INSERT OR REPLACE of the whole table: the other definitions are gone
UpsertReplacesTable(d, name, typ, n) ==
    [x \in {name} |-> [type |-> typ, num |-> n, order |-> 0]]

\* INSERT OR REPLACE of the one row: display_order falls back to its default
UpsertResetsOrder(d, name, typ, n) ==
    [x \in (DOMAIN d) \cup {name} |->
        IF x = name THEN [type |-> typ, num |-> n, order |-> 0] ELSE d[x]]

\* step (a) of SaveMetric: INSERT ... ON CONFLICT(name) DO UPDATE SET type,
\* num_aggregation; display_order keeps its value, or defaults to 0
UpsertDefinition(d, name, typ, n) ==
    LET ord == IF name \in DOMAIN d THEN d[name].order ELSE 0
    IN  [x \in (DOMAIN d) \cup {name} |->
            IF x = name THEN [type |-> typ, num |-> n, order |-> ord] ELSE d[x]]

\* step (b) of SaveMetric: INSERT INTO metrics_values; SQLite gives the new
\* row the rowid max(rowid)+1, so it is the last in rowid order
InsertValue(v, name, val, t) ==
    Append(v, [name |-> name, value |-> val, at |-> t])

\* ORDER BY recorded_at ASC: the oldest n rows stay
TrimKeepOldest(v, name, n) ==
    LET R == RowsOf(v, name)
    IN  IF n < 0 THEN {R}
        ELSE {K \in SUBSET R :
                /\ Cardinality(K) = Min(n, Cardinality(R))
                /\ \A a \in K, b \in R \ K : v[a].at <= v[b].at}

\* The row sets the subquery
\*   SELECT rowid ... WHERE metric_name = ? ORDER BY recorded_at DESC LIMIT ?
\* may return.  The ORDER BY names recorded_at only, so rows that share a
\* timestamp come out in an order the query plan decides; a negative LIMIT
\* is no limit at all in SQLite.
TrimKeepSets(v, name, n) ==
    LET R == RowsOf(v, name)
    IN  IF n < 0 THEN {R}
        ELSE {K \in SUBSET R :
                /\ Cardinality(K) = Min(n, Cardinality(R))
                /\ \A a \in K, b \in R \ K : v[a].at >= v[b].at}

\* step (c) of SaveMetric: DELETE ... WHERE metric_name = ? AND rowid NOT IN (..)
TrimOutcomes(v, name, n) ==
    {KeepRows(v, ((1..Len(v)) \ RowsOf(v, name)) \cup K) : K \in TrimKeepSets(v, name, n)}

\* SaveMetric as a relation: the set of <<defs, vals>> the committed
\* transaction may leave
SaveMetricOutcomes(d, v, name, typ, n, val, t) ==
    {<<UpsertDefinition(d, name, typ, n), w>> :
        w \in TrimOutcomes(InsertValue(v, name, val, t), name, n)}

\* the places where SaveMetric can fail: BeginTx, the three statements, Commit
SaveSteps == {"begin", "upsert", "insert", "trim", "commit"}

\* the tables as the open transaction sees them when step fails: the
\* statements before it have run, the failing one has changed nothing
TxStates(d, v, name, typ, n, val, t, step) ==
    IF step \in {"begin", "upsert"} THEN {<<d, v>>}
    ELSE IF step = "insert" THEN {<<UpsertDefinition(d, name, typ, n), v>>}
    ELSE IF step = "trim"
    THEN {<<UpsertDefinition(d, name, typ, n), InsertValue(v, name, val, t)>>}
    ELSE SaveMetricOutcomes(d, v, name, typ, n, val, t)

\* the statements that have run stay in the tables
SaveMetricFailureNoRollback(d, v, name, typ, n, val, t, step) ==
    TxStates(d, v, name, typ, n, val, t, step)

\* SaveMetric returning an error at step: the deferred tx.Rollback() (the
\* driver's own ROLLBACK after a failed COMMIT) discards what the
\* transaction did
SaveMetricFailure(d, v, name, typ, n, val, t, step) ==
    {<<d, v>> : o \in TxStates(d, v, name, typ, n, val, t, step)}

\* the rows ROW_NUMBER() OVER (PARTITION BY metric_name ORDER BY recorded_at
\* DESC) may number 1
NewestRows(v, name) ==
    {i \in RowsOf(v, name) : \A j \in RowsOf(v, name) : v[i].at >= v[j].at}

\* GetLatestMetrics: the LEFT JOIN yields one row per definition, with NULL
\* value and recorded_at for a definition without values; rows.Scan into a
\* string and an int64 fails on NULL and the method returns that error.
GetLatestMetricsResults(d, v) ==
    IF \E x \in DOMAIN d : RowsOf(v, x) = {}
    THEN {[err |-> "scan", latest |-> {}, history |-> <<>>]}
    ELSE LET Picks == {p \in [DOMAIN d -> 1..Len(v)] :
                            \A x \in DOMAIN d : p[x] \in NewestRows(v, x)}
         IN  {[err |-> "none",
               latest |-> {[name |-> x, type |-> d[x].type, num |-> d[x].num,
                            order |-> d[x].order,
                            value |-> v[p[x]].value, at |-> v[p[x]].at] : x \in DOMAIN d},
               history |-> <<>>] : p \in Picks}

\* the orders in which SELECT ... WHERE metric_name = ? ORDER BY recorded_at
\* may return the rows of a name
\* ORDER BY recorded_at DESC
HistoryOrdersDesc(v, name) ==
    LET R == RowsOf(v, name)
        k == Cardinality(R)
    IN  {s \in [1..k -> R] :
            /\ \A i, j \in 1..k : i # j => s[i] # s[j]
            /\ \A i, j \in 1..k : i < j => v[s[i]].at >= v[s[j]].at}

\* the orders ORDER BY recorded_at ASC can return the rows of name in
HistoryOrders(v, name) ==
    LET R == RowsOf(v, name)
        k == Cardinality(R)
    IN  {s \in [1..k -> R] :
            /\ \A i, j \in 1..k : i # j => s[i] # s[j]
            /\ \A i, j \in 1..k : i < j => v[s[i]].at <= v[s[j]].at}

\* GetMetricHistory
GetMetricHistoryResults(d, v, name) ==
    IF name \notin DOMAIN d
    THEN {[err |-> "metric not found", latest |-> {}, history |-> <<>>]}
    ELSE {[err |-> "none", latest |-> {},
           history |-> [i \in 1..Len(s) |-> [value |-> v[s[i]].value, at |-> v[s[i]].at]]] :
                s \in HistoryOrders(v, name)}

\* DELETE FROM metrics_values WHERE recorded_at <= cutoff
CleanRetainedInclusive(v, t) ==
    KeepRows(v, {i \in 1..Len(v) : ~(v[i].at <= t - RetentionSeconds)})

\* cleanRetainedMetrics: DELETE FROM metrics_values WHERE recorded_at < cutoff
CleanRetained(v, t) ==
    KeepRows(v, {i \in 1..Len(v) : ~(v[i].at < t - RetentionSeconds)})

\* the values go, the definition stays
DeleteValuesOnly(d, v, name) ==
    {<<d, KeepRows(v, (1..Len(v)) \ RowsOf(v, name))>>}

\* DeleteMetric: DELETE FROM metrics WHERE name = ?.  The value rows go with
\* the definition only through ON DELETE CASCADE, which SQLite applies only
\* on a connection where PRAGMA foreign_keys = ON was executed; createSchema
\* executes it once, on whichever pooled connection db.Exec picked.  With no
\* definition row to delete nothing cascades.
DeleteMetricOutcomes(d, v, name) ==
    LET d2 == [x \in (DOMAIN d) \ {name} |-> d[x]]
    IN  IF name \notin DOMAIN d THEN {<<d, v>>}
        ELSE {<<d2, KeepRows(v, (1..Len(v)) \ RowsOf(v, name))>>, <<d2, v>>}

\* an upsert of the order: a name without a definition gets one
UpdateOrderCreates(d, name, o) ==
    [x \in (DOMAIN d) \cup {name} |->
        IF x # name THEN d[x]
        ELSE IF name \in DOMAIN d THEN [d[x] EXCEPT !.order = o]
        ELSE [type |-> "", num |-> 0, order |-> o]]

\* UpdateMetricOrder: UPDATE metrics SET display_order = ? WHERE name = ?
UpdateOrder(d, name, o) ==
    [x \in DOMAIN d |-> IF x = name THEN [d[x] EXCEPT !.order = o] ELSE d[x]]

\* ------------------------------------------------------------------------
\* Spec: the Storage interface
\* ------------------------------------------------------------------------
Call(op, name, out) ==
    [op |-> op, name |-> name,
     err |-> out.err, latest |-> out.latest, history |-> out.history,
     panels |-> IF "panels" \in DOMAIN out THEN out.panels ELSE <<>>]

NoCall == Call("none", "", NoOut)

StoreInit ==
    /\ defs = <<>>
    /\ vals = <<>>
    /\ now = 1
    /\ last = NoCall

NoResp ==
    [route |-> "none", name |-> "", key |-> "", auth |-> "none", status |-> 0,
     calls |-> <<>>, err |-> "none", metrics |-> {}, history |-> <<>>,
     body |-> <<>>, token |-> <<>>]

ApiIdle ==
    /\ jwtSecret = "s1"
    /\ resp = NoResp
    /\ username = <<"a", "d", "m", "i", "n">>
    /\ held = {}
    /\ process = 1

\* the agent side before anything runs
ReportIdle == results = <<>> /\ sent = <<>> /\ reportPc = "start"

PollIdle ==
    /\ endpoints = <<>>
    /\ taskPc = <<>>
    /\ outcome = <<>>
    /\ requests = <<>>
    /\ mu = 0
    /\ pollMap = <<>>
    /\ pollPc = "wait"

CronIdle ==
    /\ cronPc = "start"
    /\ timerC = FALSE
    /\ timerOn = 0
    /\ ctxDone = FALSE
    /\ handled = 0
    /\ expired = 0

\* no cycle has started
NoCycle ==
    [pc |-> "idle", key |-> "key", n |-> 0, outs |-> <<>>, post |-> "none",
     status |-> 0, polls |-> 0, reports |-> 0, posts |-> 0, total |-> 0]

EngineIdle == cycle = NoCycle

\* no SaveMetric call is running
NoTx == [call |-> <<>>, writer |-> 0, d |-> <<>>, v |-> <<>>]

TxIdle == tx = NoTx

\* the aggregator after Start: listening, nothing in flight, the store open
Serving ==
    [pc |-> "running", listening |-> TRUE, inflight |-> 0, accepted |-> 0,
     failed |-> 0, left |-> 0, storeOpen |-> TRUE, closes |-> 0]

CloseIdle == srv = Serving

\* createSchema: panel_configs is created empty
PanelIdle == panels = <<>>

\* a componentsHandler of the default configuration, not started
NoHandler ==
    [interval |-> 60, timeout |-> 60, cancel |-> 0, starts |-> 0, closes |-> 0,
     loops |-> <<>>]

\* a store of the default configuration whose cleaner waits in its select
NoCleaner ==
    [ttl |-> 3600, period |-> 360, left |-> 360, pc |-> "select", tickerC |-> FALSE,
     done |-> FALSE, close |-> "none", dbOpen |-> TRUE, sweeps |-> 0, fails |-> 0]

LifeIdle == ch = NoHandler /\ cleaner = NoCleaner

OtherIdle == EngineIdle /\ TxIdle /\ CloseIdle /\ PanelIdle /\ LifeIdle

AgentIdle == ReportIdle /\ PollIdle /\ CronIdle /\ OtherIdle

Init == StoreInit /\ ApiIdle /\ AgentIdle

SaveMetric(name, typ, n, val, t) ==
    /\ \E o \in SaveMetricOutcomes(defs, vals, name, typ, n, val, t) :
        /\ defs' = o[1]
        /\ vals' = o[2]
    /\ last' = NoCall
    /\ UNCHANGED <<now, apiVars, agentVars>>

\* SaveMetric returning an error
SaveMetricFails(name, typ, n, val, t, step) ==
    /\ \E o \in SaveMetricFailure(defs, vals, name, typ, n, val, t, step) :
        /\ defs' = o[1]
        /\ vals' = o[2]
    /\ last' = Call("SaveMetric", name, [NoOut EXCEPT !.err = "failed"])
    /\ UNCHANGED <<now, apiVars, agentVars>>

GetLatestMetrics ==
    /\ \E r \in GetLatestMetricsResults(defs, vals) :
        last' = Call("GetLatestMetrics", "", r)
    /\ UNCHANGED <<defs, vals, now, apiVars, agentVars>>

GetMetricHistory(name) ==
    /\ \E r \in GetMetricHistoryResults(defs, vals, name) :
        last' = Call("GetMetricHistory", name, r)
    /\ UNCHANGED <<defs, vals, now, apiVars, agentVars>>

DeleteMetric(name) ==
    /\ \E o \in DeleteMetricOutcomes(defs, vals, name) :
        /\ defs' = o[1]
        /\ vals' = o[2]
    /\ last' = NoCall
    /\ UNCHANGED <<now, apiVars, agentVars>>

UpdateMetricOrder(name, o) ==
    /\ defs' = UpdateOrder(defs, name, o)
    /\ last' = NoCall
    /\ UNCHANGED <<vals, now, apiVars, agentVars>>

cleanRetainedMetrics ==
    /\ vals' = CleanRetained(vals, now)
    /\ last' = NoCall
    /\ resp' = NoResp
    /\ UNCHANGED <<defs, now, jwtSecret, authVars, agentVars>>

Tick ==
    /\ now < MaxTime
    /\ now' = now + 1
    /\ last' = NoCall
    /\ resp' = NoResp
    /\ UNCHANGED <<defs, vals, jwtSecret, authVars, agentVars>>

Next ==
    \/ \E in \in SaveInputs, t \in Times :
        Len(vals) < MaxRows /\ SaveMetric(in[1], in[2], in[3], in[4], t)
    \/ \E in \in FailInputs, step \in SaveSteps :
        SaveMetricFails(in[1], in[2], in[3], in[4], now, step)
    \/ GetLatestMetrics
    \/ \E name \in Names : GetMetricHistory(name)
    \/ \E name \in Names : DeleteMetric(name)
    \/ \E in \in OrderInputs : UpdateMetricOrder(in[1], in[2])
    \/ cleanRetainedMetrics
    \/ Tick

\* one metric saved again and again with retention counts that are counts,
\* and its history read (TestSQLiteStorage_SaveAndGet)
WindowNext ==
    \/ \E n \in 0..MaxNum, val \in Values, t \in Times :
        SaveMetric("vm1.nonce", "uint64", n, val, t)
    \/ GetMetricHistory("vm1.nonce")
    \/ GetLatestMetrics

\* ------------------------------------------------------------------------
\* The panel order table (sqlite.go: UpdatePanelOrder, GetPanelsConfigs)
\* ------------------------------------------------------------------------
PanelNames == {"vm1", "vm2"}

\* INSERT OR IGNORE: an entry keeps the order it was created with
UpsertPanelKeepFirst(ps, p, o) ==
    [q \in DOMAIN ps \cup {p} |-> IF q \in DOMAIN ps THEN ps[q] ELSE o]

\* INSERT ... ON CONFLICT(name) DO UPDATE SET display_order
UpsertPanel(ps, p, o) ==
    [q \in DOMAIN ps \cup {p} |-> IF q = p THEN o ELSE ps[q]]

UpdatePanelOrder(p, o) ==
    /\ panels' = UpsertPanel(panels, p, o)
    /\ last' = Call("UpdatePanelOrder", p, NoOut)
    /\ UNCHANGED <<defs, vals, now, apiVars, reportVars, pollVars, cronVars, besidePanels>>

\* SELECT name, display_order FROM panel_configs, read into a map
GetPanelsConfigs ==
    /\ last' = Call("GetPanelsConfigs", "", [err |-> "none", latest |-> {},
                                             history |-> <<>>, panels |-> panels])
    /\ UNCHANGED <<defs, vals, now, panels, apiVars, reportVars, pollVars, cronVars, besidePanels>>

\* the saves the model makes beside the panel calls
PanelSaves ==
    {<<"vm1.nonce", "uint64", 1, "a">>, <<"vm1.nonce", "bool", 2, "b">>,
     <<"vm1.Active", "bool", 1, "true">>}

\* the Storage interface with the panel calls (TestSQLiteStorage_Ordering)
PanelNext ==
    \/ \E p \in PanelNames, o \in Orders : UpdatePanelOrder(p, o)
    \/ GetPanelsConfigs
    \/ \E in \in PanelSaves : SaveMetric(in[1], in[2], in[3], in[4], now)
    \/ \E name \in Names : DeleteMetric(name)
    \/ \E in \in OrderInputs : UpdateMetricOrder(in[1], in[2])
    \/ cleanRetainedMetrics
    \/ Tick

\* ------------------------------------------------------------------------
\* The aggregation HTTP server
\* ------------------------------------------------------------------------
ServiceKey == "key"
Keys == {"key", "KEY", ""}
Secrets == {"s1", "s2", "s3"}

\* The token claims (parts[1]): ok is whether the part decodes from base64url
\* to JSON carrying exp
Payloads ==
    {[ok |-> FALSE, exp |-> 0]} \cup {[ok |-> TRUE, exp |-> e] : e \in 1..MaxTime}

\* HMAC-SHA256 as an ideal MAC: the tag names the key and the message
Mac(key, msg) == [dec |-> TRUE, key |-> key, msg |-> msg]

\* A signature part (parts[2]) that does not decode from base64url
Undecodable == [dec |-> FALSE, key |-> "", msg |-> [ok |-> FALSE, exp |-> 0]]

\* An Authorization header: bearer is the "Bearer " prefix, parts the number
\* of dot-separated parts of the rest
Token(bearer, parts, sig, payload) ==
    [bearer |-> bearer, parts |-> parts, sig |-> sig, payload |-> payload]

\* the claims of a token that stays unexpired for the whole run
LongLived == [ok |-> TRUE, exp |-> MaxTime]

\* The headers the model sends: three-part Bearer tokens this process signed
\* over their own claims, with every expiry; tokens another secret signed;
\* tokens carrying a signature of this process over other claims; a token
\* with an undecodable signature; and a token this process signed with the
\* prefix missing, with two parts and with four parts
Tokens ==
    {Token(TRUE, 3, Mac("s1", p), p) : p \in Payloads}
        \cup {Token(TRUE, 3, Mac("s2", p), p) : p \in {LongLived, [ok |-> TRUE, exp |-> 1]}}
        \cup {Token(TRUE, 3, Mac("s1", LongLived), p) :
                p \in {[ok |-> FALSE, exp |-> 0], [ok |-> TRUE, exp |-> 1]}}
        \cup {Token(TRUE, 3, Undecodable, LongLived),
              Token(FALSE, 3, Mac("s1", LongLived), LongLived),
              Token(TRUE, 2, Mac("s1", LongLived), LongLived),
              Token(TRUE, 4, Mac("s1", LongLived), LongLived)}

\* any non-empty key passes
AuthAPIKeyNonEmpty(key) == key # ""

\* authAPIKey
AuthAPIKey(key) == key = ServiceKey

\* the Exp that authJWT reads: the zero value when parts[1] does not decode
ClaimsExp(tok) == IF tok.payload.ok THEN tok.payload.exp ELSE 0

\* authJWT without the comparison of now with claims.Exp
AuthJWTNoExpiry(tok, secret, t) ==
    IF ~tok.bearer THEN "missing token"
    ELSE IF tok.parts # 3 THEN "invalid token"
    ELSE IF ~tok.sig.dec THEN "invalid token sign"
    ELSE IF tok.sig # Mac(secret, tok.payload) THEN "unauthorized"
    ELSE "next"

\* authJWT: the error of the 401 it answers, or "next" when it calls c.Next()
AuthJWT(tok, secret, t) ==
    IF ~tok.bearer THEN "missing token"
    ELSE IF tok.parts # 3 THEN "invalid token"
    ELSE IF ~tok.sig.dec THEN "invalid token sign"
    ELSE IF tok.sig # Mac(secret, tok.payload) THEN "unauthorized"
    ELSE IF t > ClaimsExp(tok) THEN "token expired"
    ELSE "next"

\* The bodies POST /api/report receives: "malformed" or a metric map
ReportEntries(name) ==
    IF name = "vm1.Active"
    THEN {[value |-> "true", type |-> "bool", num |-> 1]}
    ELSE {[value |-> "a", type |-> "uint64", num |-> n] : n \in NumAggs}
            \cup {[value |-> "b", type |-> "uint64", num |-> 1]}

ReportPayloads ==
    UNION {{p \in [S -> [value : Values \cup {"true"}, type : Types, num : NumAggs]] :
                \A x \in S : p[x] \in ReportEntries(x)} : S \in SUBSET Names}

\* the orders in which range visits the keys of a Go map
KeyOrders(S) ==
    {s \in [1..Cardinality(S) -> S] : \A i, j \in 1..Cardinality(S) : i # j => s[i] # s[j]}

\* what one SaveMetric call of the loop may leave, with the error it returns
SaveOne(d, v, x, m, t) ==
    {<<o[1], o[2], "none">> :
        o \in SaveMetricOutcomes(d, v, x, m.type, m.num, m.value, t)}
    \cup UNION {{<<o[1], o[2], "failed">> :
                    o \in SaveMetricFailure(d, v, x, m.type, m.num, m.value, t, step)} :
                 step \in SaveSteps}

\* the loop left at the first SaveMetric error
RECURSIVE SaveAllOutcomesStop(_, _, _, _, _)
SaveAllOutcomesStop(d, v, payload, ks, t) ==
    IF ks = <<>> THEN {<<d, v, <<>>>>}
    ELSE LET x == Head(ks)
         IN  UNION {IF o[3] # "none" THEN {<<o[1], o[2], <<o[3]>>>>}
                    ELSE {<<r[1], r[2], <<o[3]>> \o r[3]>> :
                            r \in SaveAllOutcomesStop(o[1], o[2], payload, Tail(ks), t)} :
                        o \in SaveOne(d, v, x, payload[x], t)}

\* handleReport's loop: SaveMetric for every entry, in the order ks, all
\* with the same recordedAt; an error is logged and the loop goes on.
\* Yields the tables and the error of each call
RECURSIVE SaveAllOutcomes(_, _, _, _, _)
SaveAllOutcomes(d, v, payload, ks, t) ==
    IF ks = <<>> THEN {<<d, v, <<>>>>}
    ELSE LET x == Head(ks)
         IN  UNION {{<<r[1], r[2], <<o[3]>> \o r[3]>> :
                        r \in SaveAllOutcomes(o[1], o[2], payload, Tail(ks), t)} :
                    o \in SaveOne(d, v, x, payload[x], t)}

\* a response: auth is what the route's middleware decided ("next" when it
\* let the request through), calls the Storage methods the request invoked
Resp(route, name, status, calls, err) ==
    [route |-> route, name |-> name, key |-> "",
     auth |-> IF status = 401 THEN err ELSE "next", status |-> status,
     calls |-> calls, err |-> err, metrics |-> {}, history |-> <<>>,
     body |-> <<>>, token |-> <<>>]

\* a binding that accepts every body
BindJSONAny(malformed) == "none"

\* c.ShouldBindJSON: the error for a body that is not JSON of the payload's
\* shape
BindJSON(malformed) == IF malformed THEN "invalid payload" ELSE "none"

\* authAPIKey, then handleReport: the store and the response
ServeReport(key, malformed, payload) ==
       IF ~AuthAPIKey(key)
       THEN /\ resp' = [Resp("report", "", 401, <<>>, "unauthorized") EXCEPT !.key = key]
            /\ UNCHANGED <<defs, vals>>
       ELSE IF BindJSON(malformed) # "none"
       THEN /\ resp' = [Resp("report", "", 400, <<>>, BindJSON(malformed)) EXCEPT !.key = key]
            /\ UNCHANGED <<defs, vals>>
       ELSE \E ks \in KeyOrders(DOMAIN payload) :
              \E o \in SaveAllOutcomes(defs, vals, payload, ks, now) :
                /\ defs' = o[1]
                /\ vals' = o[2]
                /\ resp' = [Resp("report", "", 200,
                                 [i \in 1..Len(o[3]) |->
                                    [op |-> "SaveMetric", name |-> ks[i], err |-> o[3][i]]],
                                 "none")
                                    EXCEPT !.key = key, !.body = payload]

\* POST /api/report
HandleReport(key, malformed, payload) ==
    /\ Len(vals) + Cardinality(DOMAIN payload) <= MaxRows
    /\ ServeReport(key, malformed, payload)
    /\ last' = NoCall
    /\ UNCHANGED <<now, jwtSecret, authVars, agentVars>>

\* handleGetMetrics
\* a handler that answers 500 to every error of the store
ErrorStatusAlways500(route, err) == 500

\* the status a handler answers to an error of the store: 500, and 404 for
\* the history of a name the store reports as "metric not found"
ErrorStatus(route, err) ==
    IF route = "history" /\ err = "metric not found" THEN 404 ELSE 500

\* the answer handleGetMetrics, handleGetMetricHistory and
\* handleDeleteMetric build from what the Storage method returned: on an
\* error, its status and {"error": err.Error()}
Answer(route, r) ==
    LET call == IF route[1] = "metrics" THEN "GetLatestMetrics"
                ELSE IF route[1] = "history" THEN "GetMetricHistory"
                ELSE "DeleteMetric"
        ok == Resp(route[1], route[2], 200, <<call>>, "none")
    IN  IF r.err # "none"
        THEN Resp(route[1], route[2], ErrorStatus(route[1], r.err), <<call>>, r.err)
        ELSE IF route[1] = "metrics"
        THEN [ok EXCEPT !.metrics =
                {[name |-> e.name, value |-> e.value, type |-> e.type,
                  num |-> e.num, at |-> e.at] : e \in r.latest}]
        ELSE IF route[1] = "history"
        THEN [ok EXCEPT !.history = r.history]
        ELSE ok

HandleGetMetrics ==
    /\ \E r \in GetLatestMetricsResults(defs, vals) :
        resp' = Answer(<<"metrics", "">>, r)
    /\ UNCHANGED <<defs, vals>>

\* handleGetMetricHistory
HandleGetMetricHistory(name) ==
    /\ \E r \in GetMetricHistoryResults(defs, vals, name) :
        resp' = Answer(<<"history", name>>, r)
    /\ UNCHANGED <<defs, vals>>

\* handleDeleteMetric
HandleDeleteMetric(name) ==
    /\ \E o \in DeleteMetricOutcomes(defs, vals, name) :
        /\ defs' = o[1]
        /\ vals' = o[2]
    /\ resp' = Answer(<<"delete", name>>, NoOut)

\* the routes of the group protected by authJWT
Routes == {<<"metrics", "">>} \cup ({"history", "delete"} \X Names)

Handler(route) ==
    IF route[1] = "metrics" THEN HandleGetMetrics
    ELSE IF route[1] = "history" THEN HandleGetMetricHistory(route[2])
    ELSE HandleDeleteMetric(route[2])

\* a request to a protected route: authJWT, then the handler
ProtectedRequest(tok, route) ==
    /\ LET a == AuthJWT(tok, jwtSecret, now)
       IN  IF a = "next"
           THEN Handler(route)
           ELSE /\ resp' = Resp(route[1], route[2], 401, <<>>, a)
                /\ UNCHANGED <<defs, vals>>
    /\ last' = NoCall
    /\ UNCHANGED <<now, jwtSecret, authVars, agentVars>>

\* the errors of a Storage whose methods fail
StoreErrors == {"db error", "metric not found"}

\* a request to a protected route served over a Storage whose method
\* returns err and changes nothing: authJWT, then the handler
FailingRequest(tok, route, err) ==
    /\ LET a == AuthJWT(tok, jwtSecret, now)
       IN  resp' = IF a = "next"
                   THEN Answer(route, [NoOut EXCEPT !.err = err])
                   ELSE Resp(route[1], route[2], 401, <<>>, a)
    /\ last' = NoCall
    /\ UNCHANGED <<defs, vals, now, jwtSecret, authVars, agentVars>>

ApiInit == StoreInit /\ ApiIdle /\ AgentIdle

ApiNext ==
    \/ \E key \in Keys, payload \in ReportPayloads : HandleReport(key, FALSE, payload)
    \/ \E key \in Keys : HandleReport(key, TRUE, <<>>)
    \/ \E tok \in Tokens, route \in Routes : ProtectedRequest(tok, route)
    \/ cleanRetainedMetrics
    \/ Tick


\* ------------------------------------------------------------------------
\* Operator login and the process secret
\* ------------------------------------------------------------------------
\* Texts are sequences of characters, so that formatting can look at them
Admin == <<"a", "d", "m", "i", "n">>
Quoted == <<"a", "d", "\"", "m", "i", "n">>
Empty == <<>>

\* the configured AuthPassword
Password == <<"p", "w">>
Wrong == <<"p", "W">>

\* ArgsWebServer.AuthUsername: any string the operator configures
Usernames == {Admin, Quoted}

\* the credentials a login request carries; a body without the fields binds
\* the empty strings
LoginUsers == Usernames \cup {Empty}
LoginPasswords == {Password, Wrong, Empty}

\* the characters that end or escape a JSON string
JsonSpecial == {"\"", "\\"}

\* fmt.Sprintf(`{"sub":"%s","exp":%d}`, user, exp) puts user between the
\* quotes as it is: the text is a JSON object carrying exp only when user
\* has no character that JSON would need escaped
FormatClaims(user, exp) ==
    [ok |-> \A i \in 1..Len(user) : user[i] \notin JsonSpecial, exp |-> exp]

\* the token handleLogin signs at time t
IssueToken(secret, user, t) ==
    LET p == FormatClaims(user, t + TokenLifetime)
    IN  Token(TRUE, 3, Mac(secret, p), p)

\* only the username is compared
CheckCredentialsUserOnly(u, p, cu, cp) == u = cu

\* the comparison of handleLogin
CheckCredentials(u, p, cu, cp) == u = cu /\ p = cp

\* handleLogin
HandleLogin(u, p, malformed) ==
    /\ IF malformed
       THEN /\ resp' = Resp("login", "", 400, <<>>, "invalid payload")
            /\ held' = held
       ELSE IF ~CheckCredentials(u, p, username, Password)
       THEN /\ resp' = [Resp("login", "", 401, <<>>, "invalid credentials")
                            EXCEPT !.body = [username |-> u, password |-> p]]
            /\ held' = held
       ELSE LET tok == IssueToken(jwtSecret, u, now)
            IN  /\ resp' = [Resp("login", "", 200, <<>>, "none")
                                EXCEPT !.body = [username |-> u, password |-> p],
                                       !.token = <<tok>>]
                /\ held' = held \cup {[tok |-> tok, at |-> now, proc |-> process]}
    /\ last' = NoCall
    /\ UNCHANGED <<defs, vals, now, jwtSecret, username, process, agentVars>>

\* the secrets of the successive processes
ProcessSecrets == <<"s1", "s2", "s3">>

\* the secret derived from the service key alone
NewSecretFromKey(key, n) == ProcessSecrets[1]

\* NewServer derives the secret from the service key and 16 random bytes of
\* salt: the salts of different processes differ, and so do the secrets
NewSecret(key, n) == ProcessSecrets[n]

\* the process ends and NewServer builds the next one over the same database
NewServer ==
    /\ process < Len(ProcessSecrets)
    /\ process' = process + 1
    /\ jwtSecret' = NewSecret(ServiceKey, process + 1)
    /\ resp' = NoResp
    /\ last' = NoCall
    /\ UNCHANGED <<defs, vals, now, username, held, agentVars>>

\* the paths of the ordering API: POST and GET /api/config/panels,
\* POST /api/config/metrics/order
ConfigRoutes == {"POST config/panels", "GET config/panels", "POST config/metrics/order"}

\* a request to a path of the ordering API: setupRoutes registers no handler
\* for it, so the router answers 404 and runs no middleware
ConfigRequest(tok, route) ==
    /\ resp' = [Resp(route, "", 404, <<>>, "not found") EXCEPT !.auth = "none"]
    /\ last' = NoCall
    /\ UNCHANGED <<defs, vals, now, jwtSecret, authVars, agentVars>>

AuthInit ==
    /\ StoreInit
    /\ jwtSecret = "s1"
    /\ resp = NoResp
    /\ username \in Usernames
    /\ held = {}
    /\ process = 1
    /\ AgentIdle

AuthNext ==
    \/ \E u \in LoginUsers, p \in LoginPasswords : HandleLogin(u, p, FALSE)
    \/ HandleLogin(Empty, Empty, TRUE)
    \/ \E h \in held, route \in Routes : ProtectedRequest(h.tok, route)
    \/ \E h \in held, route \in ConfigRoutes : ConfigRequest(h.tok, route)
    \/ NewServer
    \/ Tick


\* ------------------------------------------------------------------------
\* The agent: Report (services/agent/reporter/httpReporter.go)
\* ------------------------------------------------------------------------

AgentID == "vm1"

\* r.agentID + separator + activeHeartbeatName
HeartbeatName == "vm1.Active"

\* a common.MetricResult, as far as Report reads it
MetricResults ==
    [value : Values \cup {"true"}, type : Types, num : {0, 1, MaxNum}]

\* the maps Report can be called with: any set of endpoint names as keys
ResultMaps == UNION {[S -> MetricResults] : S \in SUBSET Names}

\* a heartbeat reporting the agent as inactive
HeartbeatInactive == [value |-> "false", type |-> "bool", num |-> 1]

Heartbeat == [value |-> "true", type |-> "bool", num |-> 1]

\* the heartbeat is written only where the results left its key free
BuildPayloadKeepResult(res) ==
    [x \in DOMAIN res \cup {HeartbeatName} |->
        IF x \in DOMAIN res THEN res[x] ELSE Heartbeat]

\* payload.Metrics: the copy of the results, then the heartbeat written
\* under its key
BuildPayload(res) ==
    LET copied == [x \in DOMAIN res |->
                     [value |-> res[x].value, type |-> res[x].type,
                      num |-> res[x].num]]
    IN  [x \in DOMAIN copied \cup {HeartbeatName} |->
            IF x = HeartbeatName THEN Heartbeat ELSE copied[x]]

\* how the POST ends: "nil", a network error, a status outside 2xx
PostOutcomes == {"nil", "network error", "server rejected"}

ReportInit ==
    /\ StoreInit /\ ApiIdle /\ PollIdle /\ CronIdle /\ OtherIdle
    /\ results \in ResultMaps
    /\ sent = <<>>
    /\ reportPc = "start"

\* Report
Report(out) ==
    /\ reportPc = "start"
    /\ sent' = BuildPayload(results)
    /\ reportPc' = out
    /\ UNCHANGED <<results, storeVars, apiVars, otherVars, pollVars, cronVars>>

ReportNext == \E out \in PostOutcomes : Report(out)

\* ------------------------------------------------------------------------
\* The agent: PollAll (services/agent/poller/httpPoller.go)
\* ------------------------------------------------------------------------

MaxEndpoints == 3

EndpointNames == {"vm1.nonce", "vm1.Active"}

\* how pollEndpoint ends: a value, or one of its errors
PollOutcomes == {"ok", "transport", "timeout", "status", "path"}

\* err != nil after pollEndpoint
PollFailed(out) == out # "ok"

\* wg.Wait returns as soon as one goroutine is done
WaitDoneAny(pcs) == \E i \in DOMAIN pcs : pcs[i] = "done"

\* wg.Wait returns when every goroutine has run its deferred wg.Done
WaitDone(pcs) == \A i \in DOMAIN pcs : pcs[i] = "done"

PollInit ==
    /\ StoreInit /\ ApiIdle /\ ReportIdle /\ CronIdle /\ OtherIdle
    /\ endpoints \in UNION {[1..n -> EndpointNames] : n \in 0..MaxEndpoints}
    /\ taskPc = [i \in DOMAIN endpoints |-> "start"]
    /\ outcome = [i \in DOMAIN endpoints |-> "pending"]
    /\ requests = [i \in DOMAIN endpoints |-> 0]
    /\ mu = 0
    /\ pollMap = <<>>
    /\ pollPc = "wait"

\* pollEndpoint in goroutine i, and the return on its error
PollEndpoint(i, out) ==
    /\ taskPc[i] = "start"
    /\ requests' = [requests EXCEPT ![i] = @ + 1]
    /\ outcome' = [outcome EXCEPT ![i] = out]
    /\ taskPc' = [taskPc EXCEPT ![i] = IF PollFailed(out) THEN "done" ELSE "lock"]
    /\ UNCHANGED <<endpoints, mu, pollMap, pollPc>>
    /\ UNCHANGED <<storeVars, apiVars, otherVars, reportVars, cronVars>>

\* a goroutine that goes on to its write without waiting for mu
LockWithoutWaiting(i) ==
    /\ taskPc[i] = "lock"
    /\ mu' = i
    /\ taskPc' = [taskPc EXCEPT ![i] = "write"]
    /\ UNCHANGED <<endpoints, outcome, requests, pollMap, pollPc>>
    /\ UNCHANGED <<storeVars, apiVars, otherVars, reportVars, cronVars>>

\* mu.Lock()
Lock(i) ==
    /\ taskPc[i] = "lock"
    /\ mu = 0
    /\ mu' = i
    /\ taskPc' = [taskPc EXCEPT ![i] = "write"]
    /\ UNCHANGED <<endpoints, outcome, requests, pollMap, pollPc>>
    /\ UNCHANGED <<storeVars, apiVars, otherVars, reportVars, cronVars>>

\* results[endpoint.Name] = ..., mu.Unlock(), then the deferred wg.Done()
WriteResult(i) ==
    /\ taskPc[i] = "write"
    /\ pollMap' = [x \in DOMAIN pollMap \cup {endpoints[i]} |->
                     IF x = endpoints[i] THEN i ELSE pollMap[x]]
    /\ mu' = 0
    /\ taskPc' = [taskPc EXCEPT ![i] = "done"]
    /\ UNCHANGED <<endpoints, outcome, requests, pollPc>>
    /\ UNCHANGED <<storeVars, apiVars, otherVars, reportVars, cronVars>>

\* wg.Wait() and return results
PollReturn ==
    /\ pollPc = "wait"
    /\ WaitDone(taskPc)
    /\ pollPc' = "returned"
    /\ UNCHANGED <<endpoints, taskPc, outcome, requests, mu, pollMap>>
    /\ UNCHANGED <<storeVars, apiVars, otherVars, reportVars, cronVars>>

PollNext ==
    \/ \E i \in DOMAIN endpoints, out \in PollOutcomes : PollEndpoint(i, out)
    \/ \E i \in DOMAIN endpoints : Lock(i)
    \/ \E i \in DOMAIN endpoints : WriteResult(i)
    \/ PollReturn


\* ------------------------------------------------------------------------
\* The agent: CronJobStarter (commonGo/common.go)
\* ------------------------------------------------------------------------

MaxExpiries == 10

\* timeToCall, in steps of the clock
TimeToCall == 3

CronInit ==
    /\ StoreInit /\ ApiIdle /\ ReportIdle /\ PollIdle /\ OtherIdle
    /\ CronIdle

\* the goroutine goes to the select without the first handler call
CronStartNoCall ==
    /\ cronPc = "start"
    /\ timerOn' = TimeToCall
    /\ cronPc' = "select"
    /\ UNCHANGED <<timerC, ctxDone, handled, expired>>
    /\ UNCHANGED <<storeVars, apiVars, otherVars, reportVars, pollVars>>

\* the goroutine starts: time.NewTimer, then handler(ctx) is entered
CronStart ==
    /\ cronPc = "start"
    /\ timerOn' = TimeToCall
    /\ handled' = handled + 1
    /\ cronPc' = "first"
    /\ UNCHANGED <<timerC, ctxDone, expired>>
    /\ UNCHANGED <<storeVars, apiVars, otherVars, reportVars, pollVars>>

\* the first handler(ctx) returns: the loop reaches the select
FirstReturn ==
    /\ cronPc = "first"
    /\ cronPc' = "select"
    /\ UNCHANGED <<timerC, timerOn, ctxDone, handled, expired>>
    /\ UNCHANGED <<storeVars, apiVars, otherVars, reportVars, pollVars>>

\* case <-timer.C: the expiry is received and handler(ctx) is entered
SelectTimer ==
    /\ cronPc = "select"
    /\ timerC
    /\ timerC' = FALSE
    /\ handled' = handled + 1
    /\ cronPc' = "handler"
    /\ UNCHANGED <<timerOn, ctxDone, expired>>
    /\ UNCHANGED <<storeVars, apiVars, otherVars, reportVars, pollVars>>

\* handler(ctx) returns, then timer.Reset(timeToCall)
HandlerReturn ==
    /\ cronPc = "handler"
    /\ timerOn' = TimeToCall
    /\ cronPc' = "select"
    /\ UNCHANGED <<timerC, ctxDone, handled, expired>>
    /\ UNCHANGED <<storeVars, apiVars, otherVars, reportVars, pollVars>>

\* case <-ctx.Done(): return, and the deferred timer.Stop()
SelectDone ==
    /\ cronPc = "select"
    /\ ctxDone
    /\ cronPc' = "exited"
    /\ timerOn' = 0
    /\ UNCHANGED <<timerC, ctxDone, handled, expired>>
    /\ UNCHANGED <<storeVars, apiVars, otherVars, reportVars, pollVars>>

\* the runtime: time passes on the running timer
TimerTick ==
    /\ timerOn > 1
    /\ expired < MaxExpiries
    /\ timerOn' = timerOn - 1
    /\ UNCHANGED <<cronPc, timerC, ctxDone, handled, expired>>
    /\ UNCHANGED <<storeVars, apiVars, otherVars, reportVars, pollVars>>

\* the runtime: timeToCall has passed on the running timer
TimerExpires ==
    /\ timerOn = 1
    /\ expired < MaxExpiries
    /\ timerOn' = 0
    /\ timerC' = TRUE
    /\ expired' = expired + 1
    /\ UNCHANGED <<cronPc, ctxDone, handled>>
    /\ UNCHANGED <<storeVars, apiVars, otherVars, reportVars, pollVars>>

\* the owner of ctx cancels it
Cancel ==
    /\ ~ctxDone
    /\ ctxDone' = TRUE
    /\ UNCHANGED <<cronPc, timerC, timerOn, handled, expired>>
    /\ UNCHANGED <<storeVars, apiVars, otherVars, reportVars, pollVars>>

CronNext ==
    \/ CronStart
    \/ FirstReturn
    \/ SelectTimer
    \/ HandlerReturn
    \/ SelectDone
    \/ TimerTick
    \/ TimerExpires
    \/ Cancel

\* ------------------------------------------------------------------------
\* The agent: Process (services/agent/engine/engine.go)
\* ------------------------------------------------------------------------

MaxCycles == 2

\* e.config.Endpoints
CycleEndpoints == <<"vm1.nonce", "vm1.Active">>

\* how the poll of one endpoint ends in a cycle
CycleOutcomes == {"ok", "transport", "status"}

\* the X-Api-Key the agent is configured with
AgentKeys == {"key", "KEY"}

\* the MetricResult of a poll that succeeded
CycleResults == [value : Values, type : {"uint64"}, num : {1}]

\* PollAll as one call: a result under the name of every endpoint whose poll
\* succeeded
PollAllResults(eps, outs) ==
    [{eps[i] : i \in {j \in DOMAIN eps : ~PollFailed(outs[j])}} -> CycleResults]

\* how the POST of Report goes: the connection fails before the server reads
\* the request, the server handles it and the response is lost, or the
\* response arrives
Posts == {"refused", "lost", "answered"}

\* Report returning nil whatever happened to the POST
ReportReturnsNil(post, status) == "nil"

\* what Report returns
ReportReturns(post, status) ==
    IF post # "answered" THEN "network error"
    ELSE IF status < 200 \/ status >= 300 THEN "server rejected"
    ELSE "nil"

\* the scheduling loop calls Process
ProcessEnter ==
    /\ cycle.pc = "idle"
    /\ cycle' = [cycle EXCEPT !.pc = "poll", !.n = @ + 1, !.outs = <<>>,
                              !.post = "none", !.status = 0, !.polls = 0,
                              !.reports = 0, !.posts = 0]
    /\ results' = <<>>
    /\ sent' = <<>>
    /\ UNCHANGED <<reportPc, storeVars, apiVars, pollVars, cronVars, besideEngine>>

\* results := e.poller.PollAll(pollCtx, e.config.Endpoints)
CyclePollAll(outs, res) ==
    /\ cycle.pc = "poll"
    /\ res \in PollAllResults(CycleEndpoints, outs)
    /\ results' = res
    /\ cycle' = [cycle EXCEPT !.pc = "report", !.outs = outs, !.polls = @ + 1]
    /\ UNCHANGED <<sent, reportPc, storeVars, apiVars, pollVars, cronVars, besideEngine>>

\* err := e.reporter.Report(reportCtx, results), on the agent's side
ReportCall(post, status) ==
    /\ cycle.pc = "report"
    /\ sent' = BuildPayload(results)
    /\ reportPc' = ReportReturns(post, status)
    /\ cycle' = [cycle EXCEPT !.pc = "return", !.post = post, !.status = status,
                              !.reports = @ + 1, !.posts = @ + 1,
                              !.total = @ + 1]
    /\ UNCHANGED <<results, pollVars, cronVars, besideEngine>>

\* Report with the aggregator as an unknown: any answer can come back
CycleReportLocal(post, status) ==
    /\ ReportCall(post, status)
    /\ UNCHANGED <<storeVars, apiVars>>

\* Report against the aggregation server
CycleReportServed(post) ==
    IF post = "refused"
    THEN ReportCall(post, 0) /\ UNCHANGED <<storeVars, apiVars>>
    ELSE /\ ServeReport(cycle.key, FALSE, BuildPayload(results))
         /\ ReportCall(post, resp'.status)
         /\ last' = NoCall
         /\ UNCHANGED <<now, jwtSecret, authVars>>

\* Process returning only after a report that went through
ProcessReturnOnSuccess ==
    /\ cycle.pc = "return"
    /\ reportPc = "nil"
    /\ cycle' = [cycle EXCEPT !.pc = "idle"]
    /\ results' = <<>>
    /\ sent' = <<>>
    /\ UNCHANGED <<reportPc, storeVars, apiVars, pollVars, cronVars, besideEngine>>

\* Process logs the error, if any, and returns: results and payload are gone
ProcessReturn ==
    /\ cycle.pc = "return"
    /\ cycle' = [cycle EXCEPT !.pc = "idle"]
    /\ results' = <<>>
    /\ sent' = <<>>
    /\ UNCHANGED <<reportPc, storeVars, apiVars, pollVars, cronVars, besideEngine>>

CycleInit ==
    /\ StoreInit /\ ApiIdle /\ ReportIdle /\ PollIdle /\ CronIdle
    /\ cycle \in {[NoCycle EXCEPT !.key = k] : k \in AgentKeys}
    /\ TxIdle
    /\ CloseIdle
    /\ PanelIdle
    /\ LifeIdle

CycleNext ==
    \/ cycle.n < MaxCycles /\ ProcessEnter
    \/ \E outs \in [DOMAIN CycleEndpoints -> CycleOutcomes] :
        \E res \in PollAllResults(CycleEndpoints, outs) : CyclePollAll(outs, res)
    \/ \E post \in Posts : CycleReportServed(post)
    \/ ProcessReturn
    \/ Tick

\* ------------------------------------------------------------------------
\* Concurrent SaveMetric calls (database/sql pool over SQLite in WAL mode)
\* ------------------------------------------------------------------------

\* the calls that run side by side
TxIds == {1, 2}

\* their arguments: one metric name, retention counts from 1
TxInputs ==
    ({"vm1.nonce"} \X {"uint64"} \X (1..MaxNum) \X {"a"})
        \cup {<<"vm1.nonce", "uint64", 1, "b">>}

\* a call that has returned err: its arguments are gone
Returned(err) ==
    [pc |-> "returned", name |-> "", type |-> "", num |-> 0, value |-> "",
     at |-> 0, err |-> err]

\* a statement writes without holding the write lock
MayWriteUnlocked(i, w) == TRUE

\* the first write of a transaction takes the WAL write lock, which one
\* connection holds at a time; a transaction that holds it keeps it up to
\* its COMMIT or ROLLBACK
MayWrite(i, w) == w \in {0, i}

\* the tables a statement of transaction i works on: those of the open write
\* transaction, or the committed ones when it opens one
TxTables == IF tx.writer = 0 THEN <<defs, vals>> ELSE <<tx.d, tx.v>>

\* a caller enters SaveMetric; s.db.BeginTx(ctx, nil): BEGIN takes no lock
TxBegin(i, in, t) ==
    /\ i \in DOMAIN tx.call => tx.call[i].pc = "returned"
    /\ tx' = [tx EXCEPT !.call = [j \in DOMAIN tx.call \cup {i} |->
                IF j = i THEN [pc |-> "begun", name |-> in[1], type |-> in[2],
                               num |-> in[3], value |-> in[4], at |-> t,
                               err |-> "none"]
                ELSE tx.call[j]]]
    /\ UNCHANGED <<storeVars, apiVars, reportVars, pollVars, cronVars, besideTx>>

\* the upsert statement
TxUpsert(i) ==
    /\ i \in DOMAIN tx.call
    /\ tx.call[i].pc = "begun"
    /\ MayWrite(i, tx.writer)
    /\ LET c == tx.call[i]
       IN  tx' = [tx EXCEPT !.writer = i,
                            !.d = UpsertDefinition(TxTables[1], c.name, c.type, c.num),
                            !.v = TxTables[2],
                            !.call[i].pc = "upserted"]
    /\ UNCHANGED <<storeVars, apiVars, reportVars, pollVars, cronVars, besideTx>>

\* the upsert statement finds the write lock taken for the whole
\* _busy_timeout: "database is locked", and the deferred Rollback
TxBusy(i) ==
    /\ i \in DOMAIN tx.call
    /\ tx.call[i].pc = "begun"
    /\ ~MayWrite(i, tx.writer)
    /\ tx' = [tx EXCEPT !.call[i] = Returned("failed")]
    /\ UNCHANGED <<storeVars, apiVars, reportVars, pollVars, cronVars, besideTx>>

\* the insert statement
TxInsert(i) ==
    /\ i \in DOMAIN tx.call
    /\ tx.call[i].pc = "upserted"
    /\ MayWrite(i, tx.writer)
    /\ LET c == tx.call[i]
       IN  tx' = [tx EXCEPT !.v = InsertValue(tx.v, c.name, c.value, c.at),
                            !.call[i].pc = "inserted"]
    /\ UNCHANGED <<storeVars, apiVars, reportVars, pollVars, cronVars, besideTx>>

\* the trim statement
TxTrim(i) ==
    /\ i \in DOMAIN tx.call
    /\ tx.call[i].pc = "inserted"
    /\ MayWrite(i, tx.writer)
    /\ \E w \in TrimOutcomes(tx.v, tx.call[i].name, tx.call[i].num) :
        tx' = [tx EXCEPT !.v = w, !.call[i].pc = "trimmed"]
    /\ UNCHANGED <<storeVars, apiVars, reportVars, pollVars, cronVars, besideTx>>

\* tx.Commit(): the tables of the transaction become the committed ones and
\* the write lock is free
TxCommit(i) ==
    /\ i \in DOMAIN tx.call
    /\ tx.call[i].pc = "trimmed"
    /\ defs' = tx.d
    /\ vals' = tx.v
    /\ tx' = [tx EXCEPT !.writer = 0, !.d = <<>>, !.v = <<>>,
                        !.call[i] = Returned("none")]
    /\ UNCHANGED <<now, last, apiVars, reportVars, pollVars, cronVars, besideTx>>

\* a statement or the commit of the writing transaction fails: the deferred
\* tx.Rollback() drops its tables and frees the write lock
TxFail(i) ==
    /\ i \in DOMAIN tx.call
    /\ tx.call[i].pc \in {"upserted", "inserted", "trimmed"}
    /\ tx.writer = i
    /\ tx' = [tx EXCEPT !.writer = 0, !.d = <<>>, !.v = <<>>,
                        !.call[i] = Returned("failed")]
    /\ UNCHANGED <<storeVars, apiVars, reportVars, pollVars, cronVars, besideTx>>

TxInit == StoreInit /\ ApiIdle /\ AgentIdle

TxNext ==
    \/ \E i \in TxIds, in \in TxInputs : TxBegin(i, in, now)
    \/ \E i \in TxIds : TxUpsert(i)
    \/ \E i \in TxIds : TxBusy(i)
    \/ \E i \in TxIds : TxInsert(i)
    \/ \E i \in TxIds : TxTrim(i)
    \/ \E i \in TxIds : TxCommit(i)
    \/ \E i \in TxIds : TxFail(i)
    \/ Tick

\* ------------------------------------------------------------------------
\* Shutdown of the aggregator (factory Close, server Close, storage Close)
\* ------------------------------------------------------------------------

\* the requests the model sends in a run
MaxRequests == 4

\* the 5 seconds Shutdown is given, in polls of its idle check
DrainPolls == 2

CloseFrame == UNCHANGED <<storeVars, apiVars, reportVars, pollVars, cronVars, besideClose>>

\* the listener accepts a connection and the handler starts
Accept ==
    /\ srv.listening
    /\ srv.accepted < MaxRequests
    /\ srv' = [srv EXCEPT !.inflight = @ + 1, !.accepted = @ + 1]
    /\ CloseFrame

\* a handler returns; against a closed store its queries have failed
Finish ==
    /\ srv.inflight > 0
    /\ srv' = [srv EXCEPT !.inflight = @ - 1,
                          !.failed = IF srv.storeOpen THEN @ ELSE @ + 1]
    /\ CloseFrame

\* componentsHandler.Close calls server.Close: httpServer.Shutdown(ctx)
\* closes the listeners at once
CloseBegin ==
    /\ srv.pc = "running"
    /\ srv' = [srv EXCEPT !.pc = "check", !.listening = FALSE, !.left = DrainPolls]
    /\ CloseFrame

\* Shutdown looks for connections that are not idle: with none it returns nil
DrainCheck ==
    /\ srv.pc = "check"
    /\ srv' = [srv EXCEPT !.pc = IF srv.inflight = 0 THEN "drained" ELSE "wait"]
    /\ CloseFrame

\* Shutdown waits for its next poll
DrainPoll ==
    /\ srv.pc = "wait"
    /\ srv.left > 0
    /\ srv' = [srv EXCEPT !.pc = "check", !.left = @ - 1]
    /\ CloseFrame

\* ctx.Done(): Shutdown returns ctx.Err() and server.Close returns it
DrainTimeout ==
    /\ srv.pc = "wait"
    /\ srv.left = 0
    /\ srv' = [srv EXCEPT !.pc = "timedout"]
    /\ CloseFrame

\* server.Close after a Shutdown that returned nil: s.wg.Wait(), then
\* s.storage.Close()
ServerStoreClose ==
    /\ srv.pc = "drained"
    /\ srv' = [srv EXCEPT !.pc = "serverClosed", !.storeOpen = FALSE, !.closes = @ + 1]
    /\ CloseFrame

\* the store is closed by componentsHandler.Close only when server.Close
\* returned nil
MayCloseStoreOnSuccess(pc) == pc = "serverClosed"

\* componentsHandler.Close drops the error of server.Close and goes on to
\* ch.store.Close()
MayCloseStore(pc) == pc \in {"serverClosed", "timedout"}

\* ch.store.Close(): cancelFunc, wg.Wait, db.Close; closing twice is allowed
HandlerStoreClose ==
    /\ MayCloseStore(srv.pc)
    /\ srv' = [srv EXCEPT !.pc = "closed", !.storeOpen = FALSE, !.closes = @ + 1]
    /\ CloseFrame

CloseInit == StoreInit /\ ApiIdle /\ AgentIdle

CloseNext ==
    \/ Accept
    \/ Finish
    \/ CloseBegin
    \/ DrainCheck
    \/ DrainPoll
    \/ DrainTimeout
    \/ ServerStoreClose
    \/ HandlerStoreClose

\* what the aggregator, seen from the agent, does with a POST
Answers ==
    {<<"refused", 0>>, <<"lost", 200>>, <<"answered", 200>>, <<"answered", 204>>,
     <<"answered", 401>>, <<"answered", 500>>}

\* handler(ctx) is running in the loop and Process has not been entered yet
HandlerCalled == cronPc \in {"first", "handler"} /\ cycle.n < handled

\* the Process call of the running handler has returned
HandlerDone == cycle.pc = "idle" /\ cycle.n = handled

AgentInit ==
    /\ StoreInit /\ ApiIdle /\ ReportIdle /\ PollIdle /\ CronIdle /\ OtherIdle

\* componentsHandler.Start: CronJobStarter(ctx, ch.engine.Process, interval)
AgentNext ==
    \/ CronStart
    \/ HandlerCalled /\ ProcessEnter
    \/ \E outs \in [DOMAIN CycleEndpoints -> CycleOutcomes] :
        \E res \in PollAllResults(CycleEndpoints, outs) : CyclePollAll(outs, res)
    \/ \E a \in Answers : CycleReportLocal(a[1], a[2])
    \/ ProcessReturn
    \/ HandlerDone /\ FirstReturn
    \/ SelectTimer
    \/ HandlerDone /\ HandlerReturn
    \/ SelectDone
    \/ TimerTick
    \/ TimerExpires
    \/ Cancel

vars == <<storeVars, apiVars, agentVars>>

\* every goroutine that can run does run, and time passes
AgentFairness ==
    /\ WF_vars(CronStart)
    /\ WF_vars(HandlerCalled /\ ProcessEnter)
    /\ WF_vars(\E outs \in [DOMAIN CycleEndpoints -> CycleOutcomes] :
                \E res \in PollAllResults(CycleEndpoints, outs) : CyclePollAll(outs, res))
    /\ WF_vars(\E a \in Answers : CycleReportLocal(a[1], a[2]))
    /\ WF_vars(ProcessReturn)
    /\ WF_vars(HandlerDone /\ FirstReturn)
    /\ WF_vars(HandlerDone /\ HandlerReturn)
    /\ WF_vars(SelectTimer \/ SelectDone)
    /\ WF_vars(TimerTick \/ TimerExpires)

Spec == Init /\ [][Next]_vars

SpecApi == ApiInit /\ [][ApiNext]_vars

SpecWindow == Init /\ [][WindowNext]_vars

SpecAuth == AuthInit /\ [][AuthNext]_vars

SpecCycle == CycleInit /\ [][CycleNext]_vars

SpecTx == TxInit /\ [][TxNext]_vars

SpecPanels == Init /\ [][PanelNext]_vars

\* Close runs to its end: each of its steps is taken once it can be
SpecClose ==
    /\ CloseInit
    /\ [][CloseNext]_vars
    /\ WF_vars(DrainCheck)
    /\ WF_vars(DrainPoll)
    /\ WF_vars(DrainTimeout)
    /\ WF_vars(ServerStoreClose)
    /\ WF_vars(HandlerStoreClose)

SpecAgent == AgentInit /\ [][AgentNext]_vars /\ AgentFairness

SpecReport == ReportInit /\ [][ReportNext]_vars

\* every request ends (the client's timeout and ctx cut it) and the scheduler
\* runs a goroutine that can take a step
SpecPoll == PollInit /\ [][PollNext]_vars /\ WF_vars(PollNext)

\* the goroutine is scheduled and the handler returns; a select with a ready
\* case takes one of its ready cases
SpecCron ==
    /\ CronInit
    /\ [][CronNext]_vars
    /\ WF_vars(CronStart)
    /\ WF_vars(FirstReturn)
    /\ WF_vars(HandlerReturn)
    /\ WF_vars(SelectTimer \/ SelectDone)


\* ------------------------------------------------------------------------
\* Claims about the store
\* ------------------------------------------------------------------------

\* C1 (as claimed): immediately after any SaveMetric(name, type, n, value, t)
\* the number of value rows stored for name is at most n.
C1_TrimInvariant ==
    [][\A in \in SaveInputs, t \in Times :
        SaveMetric(in[1], in[2], in[3], in[4], t)
            => Cardinality(RowsOf(vals', in[1])) <= in[3]]_vars

\* the rows the trim keeps when ties on recorded_at are broken by insertion
\* order, latest-inserted first: the earliest-inserted row of a tie is the
\* first to go
TieBreakKeep(v, name, n) ==
    CHOOSE K \in SUBSET RowsOf(v, name) :
        /\ Cardinality(K) = Min(n, Cardinality(RowsOf(v, name)))
        /\ \A a \in K, b \in RowsOf(v, name) \ K :
            v[a].at > v[b].at \/ (v[a].at = v[b].at /\ a > b)

\* C2 (as claimed): the trim ranks the rows of a metric by recordedAt
\* descending with insertion order as tie-breaker, so the retained rows after
\* a save are the ones that ranking determines.
C2_TieBreakDeterminism ==
    [][\A in \in SaveInputs, t \in Times :
        (in[3] >= 0 /\ SaveMetric(in[1], in[2], in[3], in[4], t))
            => LET w == InsertValue(vals, in[1], in[4], t)
               IN  vals' = KeepRows(w, ((1..Len(w)) \ RowsOf(w, in[1]))
                                            \cup TieBreakKeep(w, in[1], in[3]))]_vars

\* C3 (as claimed): GetLatestMetrics succeeds in every store state and
\* returns exactly one entry per definition, the newest value when the
\* definition has values.
C3_LatestNeverFails ==
    last.op = "GetLatestMetrics" =>
        /\ last.err = "none"
        /\ {e.name : e \in last.latest} = DOMAIN defs
        /\ \A x \in DOMAIN defs :
            RowsOf(vals, x) # {} =>
                /\ Cardinality({e \in last.latest : e.name = x}) = 1
                /\ \A e \in last.latest :
                    e.name = x => \A i \in RowsOf(vals, x) : e.at >= vals[i].at

\* the number of times the value/recordedAt pair occurs in a sequence
Occurrences(seq, val, t) ==
    Cardinality({i \in 1..Len(seq) : seq[i].value = val /\ seq[i].at = t})

\* C5: GetMetricHistory(name) is not-found exactly when name has no
\* definition row; with a definition it succeeds, also with zero values, and
\* returns the retained values, each once, in ascending recordedAt order.
C5_HistoryNotFoundIffNoDefinition ==
    last.op = "GetMetricHistory" =>
        /\ (last.err = "metric not found") <=> (last.name \notin DOMAIN defs)
        /\ last.name \in DOMAIN defs =>
            /\ last.err = "none"
            /\ Len(last.history) = Cardinality(RowsOf(vals, last.name))
            /\ \A i \in RowsOf(vals, last.name) :
                Occurrences(last.history, vals[i].value, vals[i].at)
                    = Cardinality({j \in RowsOf(vals, last.name) :
                                    /\ vals[j].value = vals[i].value
                                    /\ vals[j].at = vals[i].at})
            /\ \A i, j \in 1..Len(last.history) :
                i < j => last.history[i].at <= last.history[j].at

\* C5 witness: a history read of a defined metric whose values the TTL sweep
\* has all removed (every value that could remain is older than the cutoff)
C5_Witness ==
    /\ last.op = "GetMetricHistory"
    /\ last.name \in DOMAIN defs
    /\ defs[last.name].num > 0
    /\ last.err = "none"
    /\ last.history = <<>>

\* ------------------------------------------------------------------------
\* Claims about the HTTP server
\* ------------------------------------------------------------------------

\* C4 (as claimed): GET /metrics with a valid token answers 200 and lists
\* exactly the definitions that have at least one value.
C4_ListOmitsEmptyDefinitions ==
    (resp.route = "metrics" /\ resp.status # 401) =>
        /\ resp.status = 200
        /\ {e.name : e \in resp.metrics} = {x \in DOMAIN defs : RowsOf(vals, x) # {}}

\* C9: a report whose X-Api-Key differs from the service key is answered 401,
\* makes no SaveMetric call and leaves both tables unchanged.
C9_WrongKeyNoWrite ==
    [][(resp'.route = "report" /\ resp'.key # ServiceKey)
            => /\ resp'.status = 401
               /\ resp'.calls = <<>>
               /\ defs' = defs
               /\ vals' = vals]_vars

\* C9 witness: a report was refused with 401 while the store holds values
C9_Witness ==
    /\ resp.route = "report"
    /\ resp.status = 401
    /\ Len(vals) > 0

\* what C10 calls a valid token at time t under secret
ValidToken(tok, secret, t) ==
    /\ tok.bearer
    /\ tok.parts = 3
    /\ tok.sig = Mac(secret, tok.payload)
    /\ tok.payload.ok
    /\ t <= tok.payload.exp

ProtectedRoutes == {r[1] : r \in Routes}

\* C10: authJWT lets a request through exactly for a Bearer token of three
\* parts, signed under the process secret and unexpired; a protected handler
\* runs exactly when authJWT let the request through, and every other
\* request is answered 401 without any store call and without a change of
\* the store.
C10_ProtectedOnlyWithValidToken ==
    /\ [](\A tok \in Tokens :
            (AuthJWT(tok, jwtSecret, now) = "next") <=> ValidToken(tok, jwtSecret, now))
    /\ [](resp.route \in ProtectedRoutes =>
            /\ (resp.auth = "next") <=> (resp.calls # <<>>)
            /\ (resp.auth # "next") <=> (resp.status = 401))
    /\ [][(resp'.route \in ProtectedRoutes /\ resp'.status = 401)
            => (defs' = defs /\ vals' = vals)]_vars

\* C10 witness: a protected request was refused because its token had
\* expired, while the store holds a definition
C10_Witness ==
    /\ resp.route \in {"metrics", "history", "delete"}
    /\ resp.status = 401
    /\ resp.err = "token expired"
    /\ DOMAIN defs # {}

\* ------------------------------------------------------------------------
\* Claims about the agent
\* ------------------------------------------------------------------------

\* C6 (as claimed): the payload built by Report holds exactly one entry keyed
\* "<agentName>.Active" with value "true", type "bool" and numAggregation 1,
\* plus one entry per poll result carrying that result's value, type and
\* retentionCount.
C6_EntryPerPollResult ==
    reportPc # "start" =>
        /\ DOMAIN sent = DOMAIN results \cup {HeartbeatName}
        /\ sent[HeartbeatName] = Heartbeat
        /\ \A x \in DOMAIN results : sent[x] = results[x]

\* C6 (amended): the payload holds exactly the keys of the poll results and
\* the heartbeat key; the heartbeat key carries "true"/"bool"/1 whatever the
\* poll results hold under it, and every poll result under another key is
\* carried over with its value, type and retentionCount.
C6_HeartbeatOverwrites ==
    reportPc # "start" =>
        /\ DOMAIN sent = DOMAIN results \cup {HeartbeatName}
        /\ sent[HeartbeatName] = Heartbeat
        /\ \A x \in DOMAIN results \ {HeartbeatName} : sent[x] = results[x]

C6_Witness ==
    /\ reportPc # "start"
    /\ DOMAIN results = {"vm1.nonce", HeartbeatName}
    /\ results[HeartbeatName] # Heartbeat
    /\ sent["vm1.nonce"] = results["vm1.nonce"]

\* the endpoints whose pollEndpoint returned a value
Succeeded == {i \in DOMAIN endpoints : outcome[i] = "ok"}

\* C7 (as claimed): when PollAll returns, every endpoint was requested exactly
\* once, every per-endpoint task has finished, and the map holds exactly N-M
\* entries for N endpoints of which M failed.
C7_ExactlyNMinusM ==
    pollPc = "returned" =>
        /\ \A i \in DOMAIN endpoints : requests[i] = 1 /\ taskPc[i] = "done"
        /\ Cardinality(DOMAIN pollMap) = Cardinality(Succeeded)

\* C7 (amended): when PollAll returns, every endpoint was requested exactly
\* once, every per-endpoint task has finished, and the map holds one entry
\* per name of a successful endpoint, written by a successful endpoint of
\* that name: N-M entries when the names are pairwise distinct.  No endpoint
\* is requested twice at any time, and PollAll returns once every request
\* has ended.
C7_PartialPollTolerance ==
    /\ [](\A i \in DOMAIN endpoints : requests[i] <= 1)
    /\ [](pollPc = "returned" =>
            /\ \A i \in DOMAIN endpoints : requests[i] = 1 /\ taskPc[i] = "done"
            /\ DOMAIN pollMap = {endpoints[i] : i \in Succeeded}
            /\ \A x \in DOMAIN pollMap :
                pollMap[x] \in Succeeded /\ endpoints[pollMap[x]] = x
            /\ (\A i, j \in DOMAIN endpoints : i # j => endpoints[i] # endpoints[j])
                => Cardinality(DOMAIN pollMap) = Cardinality(Succeeded))
    /\ <>(pollPc = "returned")

C7_Witness ==
    /\ pollPc = "returned"
    /\ Len(endpoints) = MaxEndpoints
    /\ endpoints[1] = endpoints[2]
    /\ endpoints[3] # endpoints[1]
    /\ Succeeded = {1, 2}
    /\ outcome[3] = "timeout"
    /\ Cardinality(DOMAIN pollMap) = 1

\* C8: the loop enters the handler once on start, before it waits on the
\* timer, and then once for every timer expiry it receives; it leaves only
\* after a cancellation; an expiry waiting in timer.C is received, and the
\* handler entered for it, unless the context is cancelled.
C8_ImmediateThenPerExpiry ==
    /\ []((cronPc = "start") <=> (handled = 0))
    /\ [](cronPc = "first" => handled = 1)
    /\ [](cronPc # "start" => handled = 1 + expired - (IF timerC THEN 1 ELSE 0))
    /\ [](cronPc = "exited" => ctxDone)
    /\ <>(handled >= 1)
    /\ ((timerC /\ ~ctxDone) ~> (~timerC \/ ctxDone))

C8_Witness ==
    /\ cronPc = "handler"
    /\ handled = 3
    /\ expired = 2
    /\ ~ctxDone

\* ------------------------------------------------------------------------
\* Claims about failing saves
\* ------------------------------------------------------------------------

\* what the store holds about the metric x: its definition, its value rows
Proj(d, v, x) ==
    <<IF x \in DOMAIN d THEN <<d[x]>> ELSE <<>>, KeepRows(v, RowsOf(v, x))>>

\* C11: a report with the service key and a well-formed body is answered 200,
\* with exactly one SaveMetric call per entry of the metric map; an entry whose
\* save succeeded is stored as SaveMetric stores it, whichever other entries
\* failed, and an entry whose save failed leaves its metric as it was.
C11_ReportSavesEveryEntry ==
    [][(resp'.route = "report" /\ resp'.key = ServiceKey /\ resp'.err # "invalid payload")
        => /\ resp'.status = 200
           /\ Len(resp'.calls) = Cardinality(DOMAIN resp'.body)
           /\ {resp'.calls[i].name : i \in 1..Len(resp'.calls)} = DOMAIN resp'.body
           /\ \A i \in 1..Len(resp'.calls) :
                LET x == resp'.calls[i].name
                    m == resp'.body[x]
                IN  IF resp'.calls[i].err = "none"
                    THEN Proj(defs', vals', x) \in
                            {Proj(o[1], o[2], x) :
                                o \in SaveMetricOutcomes(defs, vals, x, m.type, m.num,
                                                         m.value, now)}
                    ELSE Proj(defs', vals', x) = Proj(defs, vals, x)]_vars

C11_Witness ==
    /\ resp.route = "report"
    /\ resp.status = 200
    /\ Len(resp.calls) = 2
    /\ resp.calls[1].err = "failed"
    /\ resp.calls[2].err = "none"
    /\ resp.calls[2].name \in DOMAIN defs
    /\ resp.calls[1].name \notin DOMAIN defs

\* C12: a SaveMetric that fails at any step returns an error and leaves the
\* definitions and the values exactly as they were before the call.
C12_FailedSaveChangesNothing ==
    [][last'.op = "SaveMetric"
        => (last'.err = "failed" /\ defs' = defs /\ vals' = vals)]_vars

C12_Witness ==
    /\ last.op = "SaveMetric"
    /\ last.err = "failed"
    /\ last.name \in DOMAIN defs
    /\ Len(vals) > 0

\* ------------------------------------------------------------------------
\* Claims about the retention window
\* ------------------------------------------------------------------------

\* the value rows of name were recorded at strictly increasing times
Increasing(v, name) ==
    \A i, j \in RowsOf(v, name) : i < j => v[i].at < v[j].at

\* C13: when a metric whose values were saved at strictly increasing times is
\* saved at a later time with retention count n, the values kept are the n
\* most recently recorded ones, the new one included (all of them when there
\* are no more than n); GetMetricHistory returns the kept values oldest
\* first, newest last.
C13_WindowKeepsNewest ==
    /\ [][\A n \in 0..MaxNum, val \in Values, t \in Times :
            (/\ Increasing(vals, "vm1.nonce")
             /\ \A i \in RowsOf(vals, "vm1.nonce") : vals[i].at < t
             /\ SaveMetric("vm1.nonce", "uint64", n, val, t))
            => LET w == Append(KeepRows(vals, RowsOf(vals, "vm1.nonce")),
                               [name |-> "vm1.nonce", value |-> val, at |-> t])
                   k == Len(w)
                   m == Min(n, k)
               IN  KeepRows(vals', RowsOf(vals', "vm1.nonce")) = SubSeq(w, k - m + 1, k)]_vars
    /\ []((last.op = "GetMetricHistory" /\ last.err = "none"
                /\ Increasing(vals, last.name))
            => LET w == KeepRows(vals, RowsOf(vals, last.name))
               IN  last.history = [i \in 1..Len(w) |-> [value |-> w[i].value, at |-> w[i].at]])

C13_Witness ==
    /\ last.op = "GetMetricHistory"
    /\ "vm1.nonce" \in DOMAIN defs
    /\ defs["vm1.nonce"].num = 2
    /\ Len(last.history) = 2
    /\ last.history[1].at = MaxTime - 1
    /\ last.history[2].at = MaxTime

\* ------------------------------------------------------------------------
\* Claims about DeleteMetric
\* ------------------------------------------------------------------------

\* C14: a DELETE of a metric that is answered 200 leaves the name without a
\* definition, and changes nothing when the name had none; for a name
\* without a definition GET history answers 404, and only then; the metrics
\* list names only metrics that have a definition.
C14_DeletedIsNotFound ==
    /\ [][(resp'.route = "delete" /\ resp'.status = 200)
            => /\ resp'.name \notin DOMAIN defs'
               /\ resp'.name \notin DOMAIN defs => (defs' = defs /\ vals' = vals)]_vars
    /\ []((resp.route = "history" /\ resp.status # 401)
            => ((resp.status = 404) <=> (resp.name \notin DOMAIN defs)))
    /\ []((resp.route = "metrics" /\ resp.status = 200)
            => {e.name : e \in resp.metrics} \subseteq DOMAIN defs)

\* GET history answers 404 for a metric that was deleted: rows of it are
\* still stored
C14_Witness ==
    /\ resp.route = "history"
    /\ resp.status = 404
    /\ RowsOf(vals, resp.name) # {}

\* C15 (as claimed): DeleteMetric removes the value rows of name with the
\* definition: no value row names a metric that has no definition.
C15_NoOrphanValues ==
    \A i \in 1..Len(vals) : vals[i].name \in DOMAIN defs

\* ------------------------------------------------------------------------
\* Claims about the definitions and the retention sweep
\* ------------------------------------------------------------------------

\* C16: a definition leaves the definitions table only in a DeleteMetric of
\* its name, whatever SaveMetric calls, trims, sweeps and ordering updates
\* happen; a step that removes value rows without being a DeleteMetric (a
\* trim, a sweep) leaves every definition in the table, and the sweep leaves
\* the table exactly as it is.
C16_DefinitionsOutliveRetention ==
    [][/\ \A x \in DOMAIN defs : x \in DOMAIN defs' \/ DeleteMetric(x)
       /\ cleanRetainedMetrics => defs' = defs]_vars

\* a metric that keeps one value has none left, and is still defined
C16_Witness ==
    /\ "vm1.Active" \in DOMAIN defs
    /\ RowsOf(vals, "vm1.Active") = {}
    /\ "vm1.nonce" \in DOMAIN defs
    /\ defs["vm1.nonce"].order = 1

\* the row r is not older than now - retentionSeconds
NotExpired(r) == r.at >= now - RetentionSeconds

\* C17: a retention sweep at time now deletes the value rows, of every
\* metric, recorded before now - retentionSeconds, keeps every other row
\* (one recorded exactly at now - retentionSeconds included) and changes no
\* definition.
C17_SweepDeletesExactlyExpired ==
    [][cleanRetainedMetrics
        => (vals' = SelectSeq(vals, NotExpired) /\ defs' = defs)]_vars

\* a metric that keeps two values has lost all of them, while a row recorded
\* exactly at the cutoff is still stored
C17_Witness ==
    /\ \E x \in DOMAIN defs : defs[x].num = 2 /\ RowsOf(vals, x) = {}
    /\ \E i \in 1..Len(vals) : vals[i].at = now - RetentionSeconds

\* C18 (as stated): a token issued at time t reads as expiring at
\* t + TokenLifetime, and while the issuing process runs a protected request
\* carrying it is let through at every time up to that expiry and answered
\* 401 after it.
C18_TokenLivesItsLifetime ==
    /\ [](\A h \in held : ClaimsExp(h.tok) = h.at + TokenLifetime)
    /\ [][\A h \in held, route \in Routes :
            (h.proc = process /\ ProtectedRequest(h.tok, route))
                => ((resp'.status # 401) <=> (now <= h.at + TokenLifetime))]_vars

\* C19: login answers 200 with a token exactly when the submitted username
\* and password both equal the configured ones; a malformed body is answered
\* 400 and any other request 401, and neither issues a token.
C19_LoginIffCredentials ==
    [][resp'.route = "login" =>
        IF resp'.err = "invalid payload"
        THEN resp'.status = 400 /\ resp'.token = <<>> /\ held' = held
        ELSE /\ (resp'.status = 200)
                    <=> (/\ resp'.body.username = username
                         /\ resp'.body.password = Password)
             /\ resp'.status = 200 =>
                    /\ resp'.token # <<>>
                    /\ \E h \in held' : h.tok = resp'.token[1] /\ h.proc = process /\ h.at = now
             /\ resp'.status # 200 =>
                    /\ resp'.status = 401
                    /\ resp'.token = <<>>
                    /\ held' = held]_vars

\* C19 witness: after a login that issued a token, a login with the
\* configured username and another password was answered 401
C19_Witness ==
    /\ resp.route = "login"
    /\ resp.status = 401
    /\ resp.body.username = username
    /\ resp.body.password # Password
    /\ held # {}

\* C20: a token issued by one server process is answered 401 "unauthorized"
\* on every protected route by a process created later with the same service
\* key, expired or not, and the request changes nothing in the store.
C20_RestartInvalidatesTokens ==
    /\ [](\A h \in held : h.proc < process =>
            AuthJWT(h.tok, jwtSecret, now) = "unauthorized")
    /\ [][\A h \in held, route \in Routes :
            (h.proc < process /\ ProtectedRequest(h.tok, route))
                => /\ resp'.status = 401
                   /\ resp'.err = "unauthorized"
                   /\ defs' = defs /\ vals' = vals]_vars

\* C20 witness: a token of an earlier process, still unexpired, was refused
\* as unauthorized by the running one
C20_Witness ==
    /\ resp.route \in ProtectedRoutes
    /\ resp.status = 401
    /\ resp.err = "unauthorized"
    /\ \E h \in held :
        /\ h.proc < process
        /\ h.tok.payload.ok
        /\ now <= h.at + TokenLifetime

\* C21: a report carrying the service key and a body that does not bind is
\* answered 400, calls SaveMetric for nothing and leaves both tables
\* unchanged.
C21_MalformedReportNoWrite ==
    [][(resp'.route = "report" /\ HandleReport(ServiceKey, TRUE, <<>>))
            => /\ resp'.status = 400
               /\ resp'.err = "invalid payload"
               /\ resp'.calls = <<>>
               /\ defs' = defs
               /\ vals' = vals]_vars

\* C21 witness: a report with the service key was answered 400 while the
\* store holds values
C21_Witness ==
    /\ resp.route = "report"
    /\ resp.key = ServiceKey
    /\ resp.status = 400
    /\ Len(vals) > 0

\* ------------------------------------------------------------------------
\* Claims about the agent's cycle
\* ------------------------------------------------------------------------

\* the cycle's polls have all failed
AllPollsFailed == \A i \in DOMAIN cycle.outs : PollFailed(cycle.outs[i])

\* the step in which Process calls Report
Reporting == cycle.pc = "report" /\ cycle'.pc = "return"

\* the store holds the heartbeat: its definition, and a value "true" recorded
\* at time t
HeartbeatStored(d, v, t) ==
    /\ "vm1.Active" \in DOMAIN d
    /\ d["vm1.Active"].type = "bool"
    /\ \E i \in 1..Len(v) :
        v[i].name = "vm1.Active" /\ v[i].value = "true" /\ v[i].at = t

\* C22 (as stated): when every poll of the cycle has failed, Report sends
\* one POST carrying the heartbeat, the aggregator answers 200 and a value
\* "true" is stored for the heartbeat name.
C22_HeartbeatAlwaysPersisted ==
    [][(Reporting /\ AllPollsFailed)
        => /\ cycle'.posts = 1
           /\ "vm1.Active" \in DOMAIN sent'
           /\ resp'.route = "report" /\ resp'.status = 200
           /\ HeartbeatStored(defs', vals', now)]_vars

\* C22 (amended): when every poll of the cycle has failed, Report sends one
\* POST whose only entry is the heartbeat, "true" of type bool kept once;
\* if the POST reaches an aggregator holding the agent's key, the answer is
\* 200 and the heartbeat value is stored unless its SaveMetric call fails,
\* in which case the answer is 200 all the same and the store is unchanged;
\* if the POST does not arrive or the key differs, nothing is stored.
C22_HeartbeatSentAndStored ==
    [][(Reporting /\ AllPollsFailed)
        => /\ cycle'.posts = 1
           /\ DOMAIN sent' = {"vm1.Active"}
           /\ sent'["vm1.Active"] = [value |-> "true", type |-> "bool", num |-> 1]
           /\ IF cycle'.post = "refused"
              THEN defs' = defs /\ vals' = vals /\ resp' = resp
              ELSE IF cycle.key # ServiceKey
              THEN defs' = defs /\ vals' = vals /\ resp'.status = 401
              ELSE /\ resp'.route = "report" /\ resp'.status = 200
                   /\ Len(resp'.calls) = 1
                   /\ IF resp'.calls[1].err = "none"
                      THEN HeartbeatStored(defs', vals', now)
                      ELSE defs' = defs /\ vals' = vals]_vars

\* C22 witness: a cycle whose polls all failed has reported, the aggregator
\* answered 200 and the heartbeat is stored; Report returned nil
C22_Witness ==
    /\ cycle.pc = "return"
    /\ AllPollsFailed
    /\ cycle.post = "answered"
    /\ reportPc = "nil"
    /\ resp.status = 200
    /\ HeartbeatStored(defs, vals, now)

\* C23: in a cycle Process calls PollAll once, then Report once with what
\* PollAll returned, and Report sends at most one POST; Report returns an
\* error exactly when the POST failed in transport or was answered outside
\* 2xx; once Process has returned the payload is gone, and no POST is sent
\* except by the Report call of a cycle the loop has started.
C23_OneReportNoRetry ==
    /\ [](/\ cycle.polls = (IF cycle.n = 0 \/ cycle.pc = "poll" THEN 0 ELSE 1)
          /\ cycle.reports = (IF cycle.n = 0 \/ cycle.pc \in {"poll", "report"} THEN 0 ELSE 1)
          /\ cycle.posts <= cycle.reports
          /\ cycle.total <= cycle.n
          /\ cycle.n <= handled)
    /\ [](cycle.pc = "return" =>
            /\ sent = BuildPayload(results)
            /\ results \in PollAllResults(CycleEndpoints, cycle.outs)
            /\ (reportPc # "nil") <=>
                 (cycle.post # "answered" \/ cycle.status < 200 \/ cycle.status >= 300))
    /\ [](cycle.pc = "idle" => (results = <<>> /\ sent = <<>>))
    /\ [][cycle'.total # cycle.total => (Reporting /\ cycle'.total = cycle.total + 1)]_vars

\* C23 witness: the second cycle has returned after a report the aggregator
\* rejected, as the first; two POSTs were sent in all
C23_Witness ==
    /\ cycle.pc = "idle"
    /\ cycle.n = 2
    /\ cycle.total = 2
    /\ cycle.post = "answered"
    /\ cycle.status = 500
    /\ reportPc = "server rejected"
    /\ ~ctxDone

\* the cycle has failed: every poll failed, or Report returned an error
CycleFailed ==
    /\ cycle.pc = "return"
    /\ AllPollsFailed \/ reportPc # "nil"

\* C24: every cycle returns, whatever its polls and its report did; the loop
\* leaves only after a cancellation; and after a failed cycle the loop enters
\* the next cycle for the next expiry of the timer, unless the context is
\* cancelled.
C24_FailedCycleDoesNotStopAgent ==
    /\ []((cycle.pc # "idle") => <>(cycle.pc = "idle"))
    /\ [](cronPc = "exited" => ctxDone)
    /\ \A k \in 1..MaxExpiries :
        (CycleFailed /\ cycle.n = k) ~> (cycle.n = k + 1 \/ ctxDone)

\* C24 witness: a cycle is running after a cycle whose report failed, with no
\* cancellation
C24_Witness ==
    /\ cycle.pc = "poll"
    /\ cycle.n = 3
    /\ reportPc = "network error"
    /\ ~ctxDone

\* C25 (as stated): once the context of the loop is cancelled the handler is
\* not entered again, and the loop exits.
C25_NoCycleAfterCancel ==
    /\ [][ctxDone => handled' = handled]_vars
    /\ (ctxDone ~> (cronPc = "exited"))

\* ------------------------------------------------------------------------
\* Claims about concurrent saves
\* ------------------------------------------------------------------------

\* the step in which call i commits
Commits(i) ==
    /\ i \in DOMAIN tx.call
    /\ tx.call[i].pc = "trimmed"
    /\ tx'.call[i].pc = "returned"
    /\ tx'.call[i].err = "none"

C27_ServerCloseReleasesStore ==
    /\ [](~srv.storeOpen => ~srv.listening)
    /\ [](srv.pc \in {"serverClosed", "timedout", "closed"} => ~srv.storeOpen)

\* C27 (amended): componentsHandler.Close first has server Close close the
\* listener, with the store still open, and no request is accepted from then
\* on; server Close releases the store only after Shutdown found nothing in
\* flight; after a timeout it returns with the store open, and
\* componentsHandler.Close releases it; in both cases the store is closed in
\* the end, and never while the listener accepts requests.
C27_ListenerStopsBeforeStore ==
    /\ [](~srv.storeOpen => ~srv.listening)
    /\ [][(srv.pc = "running" /\ srv'.pc # "running")
            => (~srv'.listening /\ srv'.storeOpen)]_vars
    /\ [][~srv.listening => (srv'.accepted = srv.accepted /\ ~srv'.listening)]_vars
    /\ [][(srv.storeOpen /\ ~srv'.storeOpen)
            => \/ srv.pc = "drained" /\ srv.inflight = 0
               \/ srv.pc = "timedout" /\ srv.left = 0]_vars
    /\ [](srv.pc = "drained" => srv.inflight = 0)
    /\ [](srv.pc = "serverClosed" => (~srv.storeOpen /\ srv.inflight = 0))
    /\ [](srv.pc = "timedout" => srv.storeOpen)
    /\ ((srv.pc # "running") ~> (srv.pc = "closed" /\ ~srv.storeOpen))

\* C27 witness: the drain timed out with a request in flight, and the store
\* was closed once, by componentsHandler.Close
C27_Witness ==
    /\ srv.pc = "closed"
    /\ srv.closes = 1
    /\ srv.inflight > 0
    /\ ~srv.storeOpen
    /\ ~srv.listening

\* ------------------------------------------------------------------------
\* Claims about the panel order table
\* ------------------------------------------------------------------------

\* C28: UpdatePanelOrder(p, o) leaves p with the order o, created or
\* overwritten, and every other entry as it was; GetPanelsConfigs returns the
\* whole table; and the table changes in no step but an UpdatePanelOrder
\* call: not in SaveMetric, DeleteMetric, UpdateMetricOrder or the TTL sweep.
C28_PanelsLastWriterWins ==
    /\ [][\A p \in PanelNames, o \in Orders :
            UpdatePanelOrder(p, o) =>
                /\ DOMAIN panels' = DOMAIN panels \cup {p}
                /\ panels'[p] = o
                /\ \A q \in DOMAIN panels \ {p} : panels'[q] = panels[q]]_vars
    /\ [](last.op = "GetPanelsConfigs" => (last.err = "none" /\ last.panels = panels))
    /\ [][panels' # panels => last'.op = "UpdatePanelOrder"]_vars

\* C28 witness: GetPanelsConfigs returned two panels with different orders
\* after a metric was saved and its definition deleted
C28_Witness ==
    /\ last.op = "GetPanelsConfigs"
    /\ DOMAIN last.panels = PanelNames
    /\ last.panels["vm1"] = 0
    /\ last.panels["vm2"] = 1
    /\ "vm1.nonce" \notin DOMAIN defs
    /\ "vm1.Active" \in DOMAIN defs
    /\ now = MaxTime

\* the operator endpoints over a Storage that fails
FaultNext ==
    \/ \E u \in LoginUsers, p \in LoginPasswords : HandleLogin(u, p, FALSE)
    \/ \E h \in held, route \in Routes, err \in StoreErrors :
            FailingRequest(h.tok, route, err)
    \/ Tick

SpecFaults == AuthInit /\ [][FaultNext]_vars

\* C30: on the list, history and delete endpoints an error of the store is
\* answered 500 with the error's message in the body, except that the
\* history of a name the store does not know is answered 404.
C30_StoreErrorsAnswered ==
    [][\A h \in held, route \in Routes, err \in StoreErrors :
        (AuthJWT(h.tok, jwtSecret, now) = "next" /\ FailingRequest(h.tok, route, err))
            => /\ resp'.err = err
               /\ resp'.status =
                    IF route[1] = "history" /\ err = "metric not found"
                    THEN 404 ELSE 500]_vars

C30_Witness ==
    /\ resp.route = "delete"
    /\ resp.status = 500
    /\ resp.err = "db error"
    /\ resp.calls = <<"DeleteMetric">>

\* C29 (as stated): a request to the ordering API with a valid token is
\* answered 200, and the list of GET /api/metrics carries the displayOrder
\* of each metric.
C29_ConfigEndpointsAnswer ==
    /\ [][\A h \in held, route \in ConfigRoutes :
            (ValidToken(h.tok, jwtSecret, now) /\ ConfigRequest(h.tok, route))
                => resp'.status = 200]_vars
    /\ []((resp.route = "metrics" /\ resp.status = 200) =>
            \A e \in resp.metrics :
                /\ "displayOrder" \in DOMAIN e
                /\ e.displayOrder = defs[e.name].order)

\* C31: SaveMetric on a name that has a definition overwrites its type and
\* retention count with the reported ones and leaves its displayOrder as it
\* was; on a new name it creates the definition with displayOrder 0; the
\* other definitions are untouched.
C31_SaveOverwritesTypeAndCount ==
    [][\A in \in PanelSaves :
        SaveMetric(in[1], in[2], in[3], in[4], now) =>
            /\ DOMAIN defs' = DOMAIN defs \cup {in[1]}
            /\ defs'[in[1]].type = in[2]
            /\ defs'[in[1]].num = in[3]
            /\ defs'[in[1]].order =
                    IF in[1] \in DOMAIN defs THEN defs[in[1]].order ELSE 0
            /\ \A x \in DOMAIN defs \ {in[1]} : defs'[x] = defs[x]]_vars

\* a definition saved as uint64 and given an order, then saved again as
\* bool with another retention count: both rows are stored, the order stays
C31_Witness ==
    /\ "vm1.nonce" \in DOMAIN defs
    /\ defs["vm1.nonce"].type = "bool"
    /\ defs["vm1.nonce"].num = 2
    /\ defs["vm1.nonce"].order = 1
    /\ \E i, j \in RowsOf(vals, "vm1.nonce") :
            i < j /\ vals[i].value = "a" /\ vals[j].value = "b"

\* C32 (as stated): after a successful SaveMetric(name, type, n, v, t) with
\* n at least 1, the value v recorded at t is among the rows of name.
C32_SavedRowSurvivesItsTrim ==
    [][\A in \in SaveInputs, t \in Times :
        (in[3] >= 1 /\ SaveMetric(in[1], in[2], in[3], in[4], t)) =>
            \E i \in RowsOf(vals', in[1]) :
                vals'[i].value = in[4] /\ vals'[i].at = t]_vars

\* C39: UpdateMetricOrder(name, order) changes only the displayOrder of the
\* named definition: its type and retention count, the other definitions
\* and all value rows stay, and for a name without a definition nothing is
\* created.
C39_OrderUpdateOnlyOrder ==
    [][\A in \in OrderInputs :
        UpdateMetricOrder(in[1], in[2]) =>
            /\ vals' = vals
            /\ DOMAIN defs' = DOMAIN defs
            /\ \A x \in DOMAIN defs :
                /\ defs'[x].type = defs[x].type
                /\ defs'[x].num = defs[x].num
                /\ defs'[x].order = IF x = in[1] THEN in[2] ELSE defs[x].order]_vars

\* the order of a stored metric was changed, beside a metric and its row
\* that the call did not name
C39_Witness ==
    /\ "vm1.nonce" \in DOMAIN defs
    /\ defs["vm1.nonce"].order = 1
    /\ RowsOf(vals, "vm1.nonce") # {}
    /\ "vm1.Active" \in DOMAIN defs
    /\ RowsOf(vals, "vm1.Active") # {}

\* C33 (as stated): every persisted definition has a retention count of at
\* least 1, whatever payloads the report endpoint has accepted.
C33_RetentionCountAtLeastOne ==
    \A x \in DOMAIN defs : defs[x].num >= 1

\* ------------------------------------------------------------------------
\* The agent's componentsHandler (factory/componentsHandler.go) and the
\* scheduling loops its Start calls launch (commonGo.CronJobStarter)
\* ------------------------------------------------------------------------

\* the Start and the Close calls of a run
MaxStarts == 2
MaxCloses == 2

\* context.WithTimeout(ctx, 30*time.Second) around PollAll, and
\* context.WithTimeout(ctx, 10*time.Second) around Report, in seconds
PollPhaseTimeout == 30
ReportPhaseTimeout == 10

\* QueryIntervalInSeconds: the 1 of the tests and the 60 of the example
\* configuration
Intervals == {1, 60}

\* NewComponentsHandler: the poller's http.Client gets the interval as its
\* Timeout, and the interval is the loop's timeToCall
NewComponentsHandler(interval) ==
    [NoHandler EXCEPT !.interval = interval, !.timeout = interval]

\* the goroutine of CronJobStarter as it starts: the timer is running and
\* handler(ctx) is called before the loop
NewLoop == [pc |-> "first", done |-> FALSE, armed |-> TRUE, timerC |-> FALSE]

\* a Start that never finds the handler started
AlreadyStartedNever(cancel) == FALSE

\* ch.cancel != nil
AlreadyStarted(cancel) == cancel # 0

LifeFrame ==
    UNCHANGED <<storeVars, apiVars, reportVars, pollVars, cronVars, besideLife>>

\* componentsHandler.Start, under mutCancel
Start ==
    /\ ch.starts < MaxStarts
    /\ ch' = IF AlreadyStarted(ch.cancel)
             THEN [ch EXCEPT !.starts = @ + 1]
             ELSE [ch EXCEPT !.starts = @ + 1,
                             !.cancel = Len(ch.loops) + 1,
                             !.loops = Append(@, NewLoop)]
    /\ UNCHANGED cleaner
    /\ LifeFrame

\* componentsHandler.Close, under mutCancel: it cancels the context of the
\* loop and returns; it does not wait for the goroutine
Close ==
    /\ ch.closes < MaxCloses
    /\ ch' = IF ~AlreadyStarted(ch.cancel)
             THEN [ch EXCEPT !.closes = @ + 1]
             ELSE [ch EXCEPT !.closes = @ + 1,
                             !.cancel = 0,
                             !.loops[ch.cancel].done = TRUE]
    /\ UNCHANGED cleaner
    /\ LifeFrame

\* the timer of loop l expires: the expiry waits in timer.C
LoopTimerFires(l) ==
    /\ ch.loops[l].pc # "exited"
    /\ ch.loops[l].armed
    /\ ch' = [ch EXCEPT !.loops[l].armed = FALSE, !.loops[l].timerC = TRUE]
    /\ UNCHANGED cleaner
    /\ LifeFrame

\* the first handler(ctx) of loop l returns
LoopFirstReturn(l) ==
    /\ ch.loops[l].pc = "first"
    /\ ch' = [ch EXCEPT !.loops[l].pc = "select"]
    /\ UNCHANGED cleaner
    /\ LifeFrame

\* case <-timer.C: handler(ctx)
LoopSelectTimer(l) ==
    /\ ch.loops[l].pc = "select"
    /\ ch.loops[l].timerC
    /\ ch' = [ch EXCEPT !.loops[l].pc = "handler", !.loops[l].timerC = FALSE]
    /\ UNCHANGED cleaner
    /\ LifeFrame

\* handler(ctx) returns; timer.Reset(timeToCall)
LoopHandlerReturn(l) ==
    /\ ch.loops[l].pc = "handler"
    /\ ch' = [ch EXCEPT !.loops[l].pc = "select", !.loops[l].armed = TRUE]
    /\ UNCHANGED cleaner
    /\ LifeFrame

\* case <-ctx.Done(): return, and the deferred timer.Stop()
LoopSelectDone(l) ==
    /\ ch.loops[l].pc = "select"
    /\ ch.loops[l].done
    /\ ch' = [ch EXCEPT !.loops[l].pc = "exited", !.loops[l].armed = FALSE]
    /\ UNCHANGED cleaner
    /\ LifeFrame

HandlerInit ==
    /\ StoreInit /\ ApiIdle /\ ReportIdle /\ PollIdle /\ CronIdle
    /\ EngineIdle /\ TxIdle /\ CloseIdle /\ PanelIdle
    /\ ch \in {NewComponentsHandler(i) : i \in Intervals}
    /\ cleaner = NoCleaner

HandlerNext ==
    \/ Start
    \/ Close
    \/ \E l \in DOMAIN ch.loops : LoopTimerFires(l)
    \/ \E l \in DOMAIN ch.loops : LoopFirstReturn(l)
    \/ \E l \in DOMAIN ch.loops : LoopSelectTimer(l)
    \/ \E l \in DOMAIN ch.loops : LoopHandlerReturn(l)
    \/ \E l \in DOMAIN ch.loops : LoopSelectDone(l)

SpecHandler == HandlerInit /\ [][HandlerNext]_vars

\* C34 (as stated): the request timeout of the poller and the timeouts of
\* the poll phase and of the report phase of a cycle are strictly smaller
\* than the configured poll interval.
C34_TimeoutsBelowInterval ==
    /\ ch.timeout < ch.interval
    /\ PollPhaseTimeout < ch.interval
    /\ ReportPhaseTimeout < ch.interval

\* the loops whose handler is running
Executing == {l \in DOMAIN ch.loops : ch.loops[l].pc \in {"first", "handler"}}

\* C35 (as stated): at most one poll+report cycle of a componentsHandler is
\* executing at any moment, whatever Start calls, Close calls and timer
\* expiries have happened.
C35_AtMostOneCycle == Cardinality(Executing) <= 1

\* C36: Start on a started handler and Close on a handler that is not
\* started change nothing; a Start on a handler that is not started launches
\* one loop, which is the only loop not cancelled until the next Close, and
\* that Close cancels this loop and no other.
C36_StartCloseIdempotent ==
    /\ [](\A l \in DOMAIN ch.loops : ~ch.loops[l].done <=> l = ch.cancel)
    /\ [][Start =>
            IF ch.cancel # 0
            THEN ch'.loops = ch.loops /\ ch'.cancel = ch.cancel
            ELSE /\ ch'.loops = Append(ch.loops, NewLoop)
                 /\ ch'.cancel = Len(ch'.loops)]_vars
    /\ [][Close =>
            IF ch.cancel = 0
            THEN ch'.loops = ch.loops /\ ch'.cancel = 0
            ELSE /\ ch'.cancel = 0
                 /\ DOMAIN ch'.loops = DOMAIN ch.loops
                 /\ \A l \in DOMAIN ch.loops :
                        ch'.loops[l] =
                            IF l = ch.cancel THEN [ch.loops[l] EXCEPT !.done = TRUE]
                            ELSE ch.loops[l]]_vars

\* Start, Start, Close, Close: one loop was launched and it is cancelled
C36_Witness ==
    /\ ch.starts = 2
    /\ ch.closes = 2
    /\ Len(ch.loops) = 1
    /\ ch.loops[1].done
    /\ ch.cancel = 0

\* the goroutines of PollAll between mu.Lock() and mu.Unlock()
Writing == {i \in DOMAIN endpoints : taskPc[i] = "write"}

\* C37: in PollAll at most one task is at its write of the result map at any
\* time, every write of the map is made by the task that holds the mutex,
\* and a task whose poll failed never writes: no entry of the map comes from
\* a failed poll.
C37_MapWritesUnderMutex ==
    /\ [](Cardinality(Writing) <= 1 /\ \A i \in Writing : mu = i)
    /\ [][\A i \in DOMAIN endpoints :
            WriteResult(i) => (mu = i /\ ~PollFailed(outcome[i]))]_vars
    /\ [][pollMap' # pollMap => (mu # 0 /\ mu \in Writing)]_vars
    /\ [](\A x \in DOMAIN pollMap : ~PollFailed(outcome[pollMap[x]]))

\* one task holds the mutex before its write, a second one waits for it, a
\* third one has failed and is done, and the map is still empty
C37_Witness ==
    /\ Len(endpoints) = 3
    /\ taskPc[1] = "write" /\ mu = 1
    /\ taskPc[2] = "lock"
    /\ taskPc[3] = "done" /\ PollFailed(outcome[3])
    /\ pollMap = <<>>

\* ------------------------------------------------------------------------
\* The retention cleaner of the store (sqlite.go: NewSQLiteStorage,
\* startRetentionCleaner, Close)
\* ------------------------------------------------------------------------

\* the sweeps of a run
MaxSweeps == 2

\* RetentionSeconds as configured: an int, below and above 600, negative too
Ttls == {0 - 605, 599, 610, 900}

\* Go's / on ints truncates toward zero
GoDiv(a, b) == IF a >= 0 THEN a \div b ELSE 0 - ((0 - a) \div b)

\* a period without the floor
SweepPeriodNoFloor(ttl) == GoDiv(ttl, 10)

\* intervalSec of startRetentionCleaner, in seconds
SweepPeriod(ttl) == IF GoDiv(ttl, 10) < 60 THEN 60 ELSE GoDiv(ttl, 10)

\* NewSQLiteStorage(dbPath, retentionSeconds): the ticker starts with the
\* goroutine
NewSQLiteStorage(ttl) ==
    [NoCleaner EXCEPT !.ttl = ttl, !.period = SweepPeriod(ttl),
                      !.left = SweepPeriod(ttl)]

\* one second passes for the ticker; at the end of a period a tick is put
\* in ticker.C, which holds one
TickerTime ==
    /\ cleaner.pc # "exited"
    /\ cleaner' = IF cleaner.left > 1
                  THEN [cleaner EXCEPT !.left = @ - 1]
                  ELSE [cleaner EXCEPT !.left = cleaner.period, !.tickerC = TRUE]
    /\ UNCHANGED <<ch, storeVars>>
    /\ LifeFrame

\* case <-ticker.C: cleanRetainedMetrics(ctx) is called
CleanerSelectTicker ==
    /\ cleaner.pc = "select"
    /\ cleaner.tickerC
    /\ cleaner.sweeps < MaxSweeps
    /\ cleaner' = [cleaner EXCEPT !.pc = "sweep", !.tickerC = FALSE,
                                  !.sweeps = @ + 1]
    /\ UNCHANGED <<ch, storeVars>>
    /\ LifeFrame

\* a loop that returns when a sweep fails
SweepReturnStopsOnError(ok) ==
    /\ cleaner.pc = "sweep"
    /\ cleaner' = IF ok THEN [cleaner EXCEPT !.pc = "select"]
                  ELSE [cleaner EXCEPT !.pc = "exited", !.fails = @ + 1]
    /\ vals' = IF ok THEN CleanRetained(vals, now) ELSE vals
    /\ last' = NoCall
    /\ UNCHANGED <<ch, defs, now, apiVars, reportVars, pollVars, cronVars, besideLife>>

\* cleanRetainedMetrics returns: its error is logged and the loop goes back
\* to its select
SweepReturn(ok) ==
    /\ cleaner.pc = "sweep"
    /\ cleaner' = IF ok THEN [cleaner EXCEPT !.pc = "select"]
                  ELSE [cleaner EXCEPT !.pc = "select", !.fails = @ + 1]
    /\ vals' = IF ok THEN CleanRetained(vals, now) ELSE vals
    /\ last' = NoCall
    /\ UNCHANGED <<ch, defs, now, apiVars, reportVars, pollVars, cronVars, besideLife>>

\* case <-ctx.Done(): return, then the deferred ticker.Stop() and wg.Done()
CleanerSelectDone ==
    /\ cleaner.pc = "select"
    /\ cleaner.done
    /\ cleaner' = [cleaner EXCEPT !.pc = "exited"]
    /\ UNCHANGED <<ch, storeVars>>
    /\ LifeFrame

\* sqliteStorage.Close: s.cancelFunc(), then it blocks in s.wg.Wait()
StorageClose ==
    /\ cleaner.close = "none"
    /\ cleaner' = [cleaner EXCEPT !.done = TRUE, !.close = "wait"]
    /\ UNCHANGED <<ch, storeVars>>
    /\ LifeFrame

\* s.wg.Wait() returns once the goroutine has exited; s.db.Close()
StorageCloseReturn ==
    /\ cleaner.close = "wait"
    /\ cleaner.pc = "exited"
    /\ cleaner' = [cleaner EXCEPT !.close = "returned", !.dbOpen = FALSE]
    /\ UNCHANGED <<ch, storeVars>>
    /\ LifeFrame

CleanerInit ==
    /\ StoreInit /\ ApiIdle /\ ReportIdle /\ PollIdle /\ CronIdle
    /\ EngineIdle /\ TxIdle /\ CloseIdle /\ PanelIdle
    /\ ch = NoHandler
    /\ cleaner \in {NewSQLiteStorage(ttl) : ttl \in Ttls}

CleanerNext ==
    \/ TickerTime
    \/ CleanerSelectTicker
    \/ \E ok \in BOOLEAN : SweepReturn(ok)
    \/ CleanerSelectDone
    \/ StorageClose
    \/ StorageCloseReturn

\* time passes and the goroutines run; nothing obliges anyone to call Close
CleanerFairness ==
    /\ WF_vars(TickerTime)
    /\ WF_vars(CleanerSelectTicker)
    /\ WF_vars(\E ok \in BOOLEAN : SweepReturn(ok))
    /\ WF_vars(CleanerSelectDone)
    /\ WF_vars(StorageCloseReturn)

SpecCleaner == CleanerInit /\ [][CleanerNext]_vars /\ CleanerFairness

\* C38: a failing sweep does not end the cleaner: while Close has not been
\* called its goroutine is alive, and after a failed sweep the next sweep
\* starts (within the sweeps of a run) unless Close is called; once Close
\* has returned no sweep starts, and Close returns, and closes the database,
\* only after the goroutine has exited.
C38_SweeperSurvivesFailures ==
    /\ [](cleaner.close = "none" => cleaner.pc # "exited")
    /\ \A k \in 1..(MaxSweeps - 1) :
        (cleaner.fails >= 1 /\ cleaner.sweeps = k /\ cleaner.close = "none")
            ~> (cleaner.sweeps > k \/ cleaner.close # "none")
    /\ [][cleaner.close = "returned" =>
            (cleaner'.sweeps = cleaner.sweeps /\ cleaner'.pc = "exited")]_vars
    /\ []((cleaner.close = "returned" \/ ~cleaner.dbOpen) => cleaner.pc = "exited")
    /\ (cleaner.close = "wait" ~> cleaner.close = "returned")

\* two sweeps ran, both failed, and Close has returned
C38_Witness ==
    /\ cleaner.sweeps = 2
    /\ cleaner.fails = 2
    /\ cleaner.close = "returned"
    /\ ~cleaner.dbOpen

====
